---- MODULE Spec2Model ----
(***************************************************************************)
(* A model of two video backends of SDL:                                   *)
(*   - the X11 event pump (src/video/x11/SDL_x11events.c): the native      *)
(*     event queue, X11_PumpEvents, X11_DispatchEvent with its two         *)
(*     lookahead helpers, the focus debouncer and the raw touch reader;    *)
(*   - the MSM framebuffer driver (src/video/msmfb/SDL_msmfb_video.c).     *)
(*                                                                         *)
(* The X server, the clock, the kernel and the caller of the driver are    *)
(* the environment: native events arrive at any moment (also while a pump  *)
(* call is running), the tick counter advances, system calls may fail.     *)
(***************************************************************************)
EXTENDS Integers, Sequences, FiniteSets, TLC

(***************************************************************************)
(* Bounds of the model.                                                    *)
(***************************************************************************)
\* native events that arrive in one behaviour
MaxEvents == 3
\* ... in one behaviour of the focus specification, where time passes too
MaxFocusEvents == 2
\* the tick counter (SDL_GetTicks) does not advance beyond this
MaxNow == 300

(***************************************************************************)
(* Program constants.                                                      *)
(***************************************************************************)
Button4 == 4
Button5 == 5
\* SDL_x11window.h is not part of the sources at hand; the debounce delays
\* follow the specification (focus-out 200 ticks, focus-in shorter).
PENDING_FOCUS_IN_TIME == 100
PENDING_FOCUS_OUT_TIME == 200
NULL == 0

\* windowlist holds two entries; entry i has the native handle XWindowOf(i).
\* ForeignWindow is a handle of no entry (a closed or foreign window).
WindowIds == 1..2
XWindowOf(i) == 10 + i
ForeignWindow == XWindowOf(0)

VARIABLES
    pc,            \* position in X11_PumpEvents: "idle" | "events" | "touch"
    stream,        \* every native event delivered to the client so far
    head,          \* how many of them Xlib has handed out (XNextEvent)
    now,           \* SDL_GetTicks()
    windowlist,    \* videodata->windowlist: SDL_WindowData per entry
    pending_src,   \* history: serial of the event that set pending_focus
    keyboard_focus,\* SDL_GetKeyboardFocus(): a window entry or NULL
    mouse_focus,   \* SDL_GetMouse()->focus: a window entry or NULL
    sent,          \* history: canonical events the backend sent, in order
    calls          \* history: one record per X11_DispatchEvent call

\* The rest of what the dispatcher reads and writes.
VARIABLES
    selection_waiting, \* videodata->selection_waiting
    hidden,        \* per window entry: window->flags & SDL_WINDOW_HIDDEN
    relative_mode, \* SDL_GetMouse()->relative_mode
    syswm,         \* SDL_GetEventState(SDL_SYSWMEVENT) == SDL_ENABLE
    wmmsgs,        \* history: the messages given to SDL_SendSysWMEvent
    xsent,         \* history: the requests made on the native connection
    ticks          \* one focus deadline and SDL_GetTicks() as Uint32 values

x11more == <<selection_waiting, hidden, relative_mode, syswm, wmmsgs, xsent,
             ticks>>

x11vars == <<pc, stream, head, now, windowlist, pending_src,
             keyboard_focus, mouse_focus, sent, calls, x11more>>

\* The raw touch reader (the tail of X11_PumpEvents).
VARIABLES
    touch,         \* EventTouchData of each registered touch device
    touch_last,    \* history: the input_event handled last, and its device
    touch_out,     \* history: the canonical events that handling sent
    xinput2,       \* X11_Xinput2IsMultitouchSupported()
    poll_i,        \* the int i of X11_PumpEvents (lines 715, 720, 733)
    polled         \* history: the devices read since the loop of line 720 began

touchvars == <<touch, touch_last, touch_out, xinput2, poll_i, polled>>

\* The MSM framebuffer driver and, below it, the kernel.
VARIABLES
    fb,            \* struct MSMFB_VideoDriverData
    fb_inited,     \* MSMFB_VideoInit was called and returned 0
    dev_var,       \* kernel: the variable mode info of the device
    open_fds,      \* kernel: the open descriptors of the device
    mappings,      \* kernel: the addresses of the live mappings
    fb_ops,        \* history: the driver operations called, in order
    fb_sys,        \* history: the system calls they made, in order
    fb_call        \* history: the last operation's arguments and return value

fbvars == <<fb, fb_inited, dev_var, open_fds, mappings, fb_ops, fb_sys, fb_call>>

vars == <<x11vars, touchvars, fbvars>>

(***************************************************************************)
(* Native events.  An XEvent is a union; the model keeps one record shape  *)
(* with the members the dispatcher reads, zeroed when the type lacks them. *)
(* im_filtered is the verdict XFilterEvent will give on the event.         *)
(***************************************************************************)
\* For a PropertyNotify, netwm_hidden is the hidden flag X11_GetNetWMState
\* will compute; for a SelectionRequest, store_status and store_type are
\* what XGetWindowProperty will return for the cut buffer.
XEvent(t, w) ==
    [type |-> t, window |-> w, im_filtered |-> FALSE,
     time |-> 0, keycode |-> 0, button |-> 0,
     detail |-> "NotifyAncestor", mode |-> "NotifyNormal",
     x |-> 0, y |-> 0, width |-> 0, height |-> 0, text |-> "",
     message_type |-> "None", format |-> 0, data0 |-> "None",
     atom |-> "None", netwm_hidden |-> FALSE,
     selection |-> "None", target |-> "None", property |-> "None",
     requestor |-> NULL, store_status |-> "Success", store_type |-> "None"]

NoEvent == XEvent("None", NULL)

\* The events Xlib holds and can still read without blocking.
queue == SubSeq(stream, head + 1, Len(stream))
\* XPending(display)
XPending == Len(stream) - head

(***************************************************************************)
(* Uint32 values, kept as two 16-bit halves: value = hi * 2^16 + lo.       *)
(***************************************************************************)
Half == 65536

\* The Uint32 of a number below 2^31.
Uint32(n) == [hi |-> n \div Half, lo |-> n % Half]

\* a + n in Uint32 arithmetic (modulo 2^32), for a number n below 2^31.
Uint32Add(a, n) ==
    LET lo == a.lo + (n % Half)
        hi == a.hi + (n \div Half) + (lo \div Half)
    IN  [hi |-> hi % Half, lo |-> lo % Half]

\* a - b in Uint32 arithmetic (modulo 2^32).
Uint32Sub(a, b) ==
    LET lo == a.lo - b.lo
        borrow == IF lo < 0 THEN 1 ELSE 0
    IN  [hi |-> (a.hi - b.hi - borrow + Half) % Half, lo |-> (lo + Half) % Half]

\* (int) u <= 0: the value read as a signed 32-bit number is negative
\* (top bit set) or zero.
IntLeqZero(u) == u.hi >= Half \div 2 \/ (u.hi = 0 /\ u.lo = 0)

\* A deadline test that compares the two ticks as unsigned numbers.
DeadlineExpired_Unsigned(pending_focus_time, ticksnow) ==
    \/ pending_focus_time.hi < ticksnow.hi
    \/ pending_focus_time.hi = ticksnow.hi /\ pending_focus_time.lo <= ticksnow.lo

\* (int)(data->pending_focus_time-now) <= 0  (line 635)
DeadlineExpired(pending_focus_time, ticksnow) ==
    IntLeqZero(Uint32Sub(pending_focus_time, ticksnow))

\* No deadline is recorded.
NoDeadline ==
    [pending_focus_time |-> Uint32(0), now |-> Uint32(0), delay |-> 0,
     elapsed |-> 0, steps |-> 0, expired |-> "untested"]

RECURSIVE MaxTime(_)
MaxTime(s) ==
    IF s = <<>> THEN 0
    ELSE LET m == MaxTime(Tail(s))
         IN  IF Head(s).time > m THEN Head(s).time ELSE m

(***************************************************************************)
(* Canonical events (the calls into the portable event core).  src is the  *)
(* serial (position in the stream) of the native event whose handling      *)
(* made the call.                                                          *)
(***************************************************************************)
Canon(kind, src, window, a, b) ==
    [kind |-> kind, src |-> src, window |-> window, a |-> a, b |-> b]


(***************************************************************************)
(* The lookahead helpers.  pending is XPending(display) after the event    *)
(* under dispatch was pulled, peekevent the event XPeekEvent would return. *)
(***************************************************************************)
\* peekevent.xkey.time - event->xkey.time on the unsigned type Time: a
\* press stamped before the release wraps to a huge value.
TimeDiff(a, b) == IF a >= b THEN a - b ELSE 2147483647

\* A helper that peeks without asking whether an event is queued.
XPeeked_Unchecked(pending) == TRUE

\* The test of lines 59 and 73: XPeekEvent is called only when XPending
\* reports an event.
XPeeked(pending) == pending > 0

X11_KeyRepeat(event, pending, peekevent) ==
    /\ XPeeked(pending)
    /\ peekevent.type = "KeyPress"
    /\ peekevent.keycode = event.keycode
    /\ TimeDiff(peekevent.time, event.time) < 2

\* The value X11_IsWheelEvent leaves in *ticks (0 at the call, line 457).
WheelTicks(button) ==
    IF button = Button4 THEN 1
    ELSE IF button = Button5 THEN -1
    ELSE 0

\* A lookahead that forgets to compare the timestamps.
X11_IsWheelEvent_AnyTime(event, pending, peekevent) ==
    /\ pending > 0
    /\ peekevent.type = "ButtonRelease"
    /\ peekevent.button = event.button

X11_IsWheelEvent(event, pending, peekevent) ==
    /\ XPeeked(pending)
    /\ peekevent.type = "ButtonRelease"
    /\ peekevent.button = event.button
    /\ peekevent.time = event.time

(***************************************************************************)
(* X11_DispatchEvent, the switch on xevent.type for a resolved window d.   *)
(* The result names what the case does: the canonical events it sends      *)
(* (out), whether the lookahead drained the next event (drain), the new    *)
(* SDL_WindowData of d (win), the history serial of its pending focus      *)
(* (psrc) and the mouse focus (mf).                                        *)
(***************************************************************************)
Geometry(e) == [x |-> e.x, y |-> e.y, width |-> e.width, height |-> e.height]

Result(out, win, psrc) ==
    [out |-> out, drain |-> FALSE, win |-> win, psrc |-> psrc,
     mf |-> mouse_focus, peek |-> FALSE, xout |-> <<>>,
     sw |-> selection_waiting]

X11_DispatchMapNotify(serial, d) ==
    << Canon("Shown", serial, d, 0, 0), Canon("Restored", serial, d, 0, 0) >>

X11_DispatchUnmapNotify(serial, d) ==
    << Canon("Hidden", serial, d, 0, 0), Canon("Minimized", serial, d, 0, 0) >>

\* A FocusIn that does not touch a transition that is already pending.
CaseFocusIn_KeepPending(xevent, serial, d) ==
    LET data == windowlist[d] IN
    IF xevent.detail = "NotifyInferior"
         \/ data.pending_focus # "PENDING_FOCUS_NONE"
    THEN Result(<<>>, data, pending_src[d])
    ELSE Result(<<>>,
           [data EXCEPT !.pending_focus = "PENDING_FOCUS_IN",
                        !.pending_focus_time = now + PENDING_FOCUS_IN_TIME],
           serial)

\* A FocusIn that resets the keyboard whenever a focus-out is pending.
CaseFocusIn_ResetAny(xevent, serial, d) ==
    LET data == windowlist[d] IN
    IF xevent.detail = "NotifyInferior"
    THEN Result(<<>>, data, pending_src[d])
    ELSE Result(
           IF data.pending_focus = "PENDING_FOCUS_OUT"
           THEN << Canon("ResetKeyboard", serial, d, 0, 0) >>
           ELSE <<>>,
           [data EXCEPT !.pending_focus = "PENDING_FOCUS_IN",
                        !.pending_focus_time = now + PENDING_FOCUS_IN_TIME],
           serial)

\* case FocusIn (lines 251-271)
CaseFocusIn(xevent, serial, d) ==
    LET data == windowlist[d] IN
    IF xevent.detail = "NotifyInferior"
    THEN Result(<<>>, data, pending_src[d])
    ELSE Result(
           IF data.pending_focus = "PENDING_FOCUS_OUT" /\ d = keyboard_focus
           THEN << Canon("ResetKeyboard", serial, d, 0, 0) >>
           ELSE <<>>,
           [data EXCEPT !.pending_focus = "PENDING_FOCUS_IN",
                        !.pending_focus_time = now + PENDING_FOCUS_IN_TIME],
           serial)

\* case FocusOut (lines 274-288)
CaseFocusOut(xevent, serial, d) ==
    LET data == windowlist[d] IN
    IF xevent.detail = "NotifyInferior"
    THEN Result(<<>>, data, pending_src[d])
    ELSE Result(<<>>,
           [data EXCEPT !.pending_focus = "PENDING_FOCUS_OUT",
                        !.pending_focus_time = now + PENDING_FOCUS_OUT_TIME],
           serial)

\* case KeyPress (lines 311-350); xevent.text is what the input-method
\* string lookup yields for the event.
CaseKeyPress(xevent, serial, d) ==
    Result(<< Canon("KeyDown", serial, d, xevent.keycode, 0) >>
           \o (IF xevent.text # ""
               THEN << Canon("Text", serial, d, xevent.text, 0) >>
               ELSE <<>>),
           windowlist[d], pending_src[d])

\* A repeat test that takes the press for the repeat without a lookahead.
CaseKeyRelease_AlwaysUp(xevent, serial, pending, peekevent, d) ==
    Result(<< Canon("KeyUp", serial, d, xevent.keycode, 0) >>,
           windowlist[d], pending_src[d])

\* case KeyRelease (lines 353-365)
CaseKeyRelease(xevent, serial, pending, peekevent, d) ==
    [Result(IF X11_KeyRepeat(xevent, pending, peekevent)
            THEN <<>>
            ELSE << Canon("KeyUp", serial, d, xevent.keycode, 0) >>,
            windowlist[d], pending_src[d])
     EXCEPT !.peek = XPeeked(pending)]

\* A ConfigureNotify that looks at x alone for a move.
CaseConfigureNotify_XOnly(xevent, serial, d) ==
    LET data == windowlist[d]
        last == data.last_xconfigure
    IN  Result(
          (IF xevent.x # last.x
           THEN << Canon("Moved", serial, d, xevent.x, xevent.y) >>
           ELSE <<>>)
          \o
          (IF xevent.width # last.width \/ xevent.height # last.height
           THEN << Canon("Resized", serial, d, xevent.width, xevent.height) >>
           ELSE <<>>),
          [data EXCEPT !.last_xconfigure = Geometry(xevent)],
          pending_src[d])

\* case ConfigureNotify (lines 386-405)
CaseConfigureNotify(xevent, serial, d) ==
    LET data == windowlist[d]
        last == data.last_xconfigure
    IN  Result(
          (IF xevent.x # last.x \/ xevent.y # last.y
           THEN << Canon("Moved", serial, d, xevent.x, xevent.y) >>
           ELSE <<>>)
          \o
          (IF xevent.width # last.width \/ xevent.height # last.height
           THEN << Canon("Resized", serial, d, xevent.width, xevent.height) >>
           ELSE <<>>),
          [data EXCEPT !.last_xconfigure = Geometry(xevent)],
          pending_src[d])

\* A wheel reclassification that leaves the release in the queue.
CaseButtonPress_NoDrain(xevent, serial, pending, peekevent, d) ==
    IF X11_IsWheelEvent(xevent, pending, peekevent)
    THEN Result(<< Canon("MouseWheel", serial, d, 0, WheelTicks(xevent.button)) >>,
                windowlist[d], pending_src[d])
    ELSE Result(<< Canon("MouseButtonDown", serial, d, xevent.button, 0) >>,
                windowlist[d], pending_src[d])

\* case ButtonPress (lines 456-465)
CaseButtonPress(xevent, serial, pending, peekevent, d) ==
    IF X11_IsWheelEvent(xevent, pending, peekevent)
    THEN [Result(<< Canon("MouseWheel", serial, d, 0, WheelTicks(xevent.button)) >>,
                 windowlist[d], pending_src[d])
          EXCEPT !.drain = TRUE, !.peek = XPeeked(pending)]
    ELSE [Result(<< Canon("MouseButtonDown", serial, d, xevent.button, 0) >>,
                 windowlist[d], pending_src[d])
          EXCEPT !.peek = XPeeked(pending)]

\* case ButtonRelease (lines 467-470)
CaseButtonRelease(xevent, serial, d) ==
    Result(<< Canon("MouseButtonUp", serial, d, xevent.button, 0) >>,
           windowlist[d], pending_src[d])

\* case EnterNotify / LeaveNotify (lines 216-248)
CaseEnterNotify(xevent, serial, d) ==
    [Result(<<>>, windowlist[d], pending_src[d]) EXCEPT !.mf = d]

\* A LeaveNotify that clears the mouse focus whatever its mode and detail.
CaseLeaveNotify_Always(xevent, serial, d) ==
    [Result(<<>>, windowlist[d], pending_src[d]) EXCEPT !.mf = NULL]

CaseLeaveNotify(xevent, serial, d) ==
    IF /\ xevent.mode # "NotifyGrab"
       /\ xevent.mode # "NotifyUngrab"
       /\ xevent.detail # "NotifyInferior"
    THEN [Result(<<>>, windowlist[d], pending_src[d]) EXCEPT !.mf = NULL]
    ELSE Result(<<>>, windowlist[d], pending_src[d])

\* DefaultRootWindow(display)
RootWindow == 1

\* A request on the native connection made while handling event src.
XRequest(call, src, dest, event) ==
    [call |-> call, src |-> src, dest |-> dest, event |-> event]

WM_Message(xevent, atom) ==
    /\ xevent.message_type = "WM_PROTOCOLS"
    /\ xevent.format = 32
    /\ xevent.data0 = atom

\* A ping answered with a message that keeps nothing but the type.
CaseClientMessage_Blank(xevent, serial, d) ==
    IF WM_Message(xevent, "_NET_WM_PING")
    THEN [Result(<<>>, windowlist[d], pending_src[d])
          EXCEPT !.xout = << XRequest("XSendEvent", serial, RootWindow,
                                      XEvent("ClientMessage", RootWindow)) >>]
    ELSE IF WM_Message(xevent, "WM_DELETE_WINDOW")
    THEN Result(<< Canon("Close", serial, d, 0, 0) >>,
                windowlist[d], pending_src[d])
    ELSE Result(<<>>, windowlist[d], pending_src[d])

\* A ClientMessage that takes every protocol message for a close request.
CaseClientMessage_CloseAny(xevent, serial, d) ==
    IF WM_Message(xevent, "_NET_WM_PING")
    THEN [Result(<<>>, windowlist[d], pending_src[d])
          EXCEPT !.xout = << XRequest("XSendEvent", serial, RootWindow,
                                      [xevent EXCEPT !.window = RootWindow]) >>]
    ELSE IF xevent.message_type = "WM_PROTOCOLS"
    THEN Result(<< Canon("Close", serial, d, 0, 0) >>,
                windowlist[d], pending_src[d])
    ELSE Result(<<>>, windowlist[d], pending_src[d])

\* case ClientMessage (lines 408-433)
CaseClientMessage(xevent, serial, d) ==
    IF WM_Message(xevent, "_NET_WM_PING")
    THEN [Result(<<>>, windowlist[d], pending_src[d])
          EXCEPT !.xout = << XRequest("XSendEvent", serial, RootWindow,
                                      [xevent EXCEPT !.window = RootWindow]) >>]
    ELSE IF WM_Message(xevent, "WM_DELETE_WINDOW")
    THEN Result(<< Canon("Close", serial, d, 0, 0) >>,
                windowlist[d], pending_src[d])
    ELSE Result(<<>>, windowlist[d], pending_src[d])

\* case MotionNotify (lines 444-454)
CaseMotionNotify(xevent, serial, d) ==
    Result(IF ~relative_mode
           THEN << Canon("MouseMotion", serial, d, xevent.x, xevent.y) >>
           ELSE <<>>,
           windowlist[d], pending_src[d])

\* A PropertyNotify that does not compare the new state with the window's.
CasePropertyNotify_Uncompared(xevent, serial, d) ==
    Result(IF xevent.atom = "_NET_WM_STATE"
           THEN IF xevent.netwm_hidden
                THEN X11_DispatchUnmapNotify(serial, d)
                ELSE X11_DispatchMapNotify(serial, d)
           ELSE <<>>,
           windowlist[d], pending_src[d])

\* case PropertyNotify (lines 549-563)
CasePropertyNotify(xevent, serial, d) ==
    Result(IF xevent.atom = "_NET_WM_STATE" /\ xevent.netwm_hidden # hidden[d]
           THEN IF xevent.netwm_hidden
                THEN X11_DispatchUnmapNotify(serial, d)
                ELSE X11_DispatchMapNotify(serial, d)
           ELSE <<>>,
           windowlist[d], pending_src[d])

\* The SelectionNotify event the SelectionRequest case builds (lines
\* 582-598): target is what the read of the cut buffer returned.
SelectionReply(req) ==
    LET read == req.store_status = "Success"
        target == IF read THEN req.store_type ELSE "None"
    IN  [XEvent("SelectionNotify", NULL) EXCEPT
            !.selection = req.selection,
            !.target = target,
            !.property = IF read /\ target = req.target
                         THEN req.property ELSE "None",
            !.requestor = req.requestor,
            !.time = req.time]

\* A SelectionRequest that answers only when the selection could be copied.
CaseSelectionRequest_Silent(xevent, serial, d) ==
    LET sevent == SelectionReply(xevent) IN
    [Result(<<>>, windowlist[d], pending_src[d])
     EXCEPT !.xout =
        IF sevent.property # "None"
        THEN << XRequest("XChangeProperty", serial, xevent.requestor, sevent),
                XRequest("XSendEvent", serial, xevent.requestor, sevent) >>
        ELSE <<>>]

\* case SelectionRequest (lines 568-604)
CaseSelectionRequest(xevent, serial, d) ==
    LET sevent == SelectionReply(xevent) IN
    [Result(<<>>, windowlist[d], pending_src[d])
     EXCEPT !.xout =
        (IF sevent.property # "None"
         THEN << XRequest("XChangeProperty", serial, xevent.requestor, sevent) >>
         ELSE <<>>)
        \o << XRequest("XSendEvent", serial, xevent.requestor, sevent) >>]

\* case SelectionNotify (lines 606-613)
CaseSelectionNotify(xevent, serial, d) ==
    [Result(<<>>, windowlist[d], pending_src[d]) EXCEPT !.sw = FALSE]

Classify(xevent, serial, pending, peekevent, d) ==
    CASE xevent.type = "EnterNotify" -> CaseEnterNotify(xevent, serial, d)
      [] xevent.type = "LeaveNotify" -> CaseLeaveNotify(xevent, serial, d)
      [] xevent.type = "FocusIn" -> CaseFocusIn(xevent, serial, d)
      [] xevent.type = "FocusOut" -> CaseFocusOut(xevent, serial, d)
      [] xevent.type = "KeyPress" -> CaseKeyPress(xevent, serial, d)
      [] xevent.type = "KeyRelease" ->
             CaseKeyRelease(xevent, serial, pending, peekevent, d)
      [] xevent.type = "UnmapNotify" ->
             Result(X11_DispatchUnmapNotify(serial, d), windowlist[d], pending_src[d])
      [] xevent.type = "MapNotify" ->
             Result(X11_DispatchMapNotify(serial, d), windowlist[d], pending_src[d])
      [] xevent.type = "ConfigureNotify" -> CaseConfigureNotify(xevent, serial, d)
      [] xevent.type = "Expose" ->
             Result(<< Canon("Exposed", serial, d, 0, 0) >>,
                    windowlist[d], pending_src[d])
      [] xevent.type = "ButtonPress" ->
             CaseButtonPress(xevent, serial, pending, peekevent, d)
      [] xevent.type = "ButtonRelease" -> CaseButtonRelease(xevent, serial, d)
      [] xevent.type = "ClientMessage" -> CaseClientMessage(xevent, serial, d)
      [] xevent.type = "MotionNotify" -> CaseMotionNotify(xevent, serial, d)
      [] xevent.type = "PropertyNotify" -> CasePropertyNotify(xevent, serial, d)
      [] xevent.type = "SelectionRequest" ->
             CaseSelectionRequest(xevent, serial, d)
      [] xevent.type = "SelectionNotify" -> CaseSelectionNotify(xevent, serial, d)
      [] OTHER -> Result(<<>>, windowlist[d], pending_src[d])

\* A lookup that hands out the first entry when no entry has the handle.
LookupWindow_Fallback(xwindow) ==
    IF \E i \in WindowIds : XWindowOf(i) = xwindow
    THEN CHOOSE i \in WindowIds : XWindowOf(i) = xwindow
    ELSE 1

\* The window lookup of lines 199-211: the first entry with the handle.
LookupWindow(xwindow) ==
    IF \E i \in WindowIds : XWindowOf(i) = xwindow
    THEN CHOOSE i \in WindowIds :
           /\ XWindowOf(i) = xwindow
           /\ \A j \in WindowIds : XWindowOf(j) = xwindow => i <= j
    ELSE NULL

(***************************************************************************)
(* The state after construction: the window data is zeroed, no event has   *)
(* arrived, nothing has the focus.                                         *)
(***************************************************************************)
InitWindowData ==
    [pending_focus |-> "PENDING_FOCUS_NONE", pending_focus_time |-> 0,
     last_xconfigure |-> [x |-> 0, y |-> 0, width |-> 0, height |-> 0]]

InitTouchData ==
    [x |-> -1, y |-> -1, pressure |-> -1, finger |-> 0,
     down |-> FALSE, up |-> FALSE]

TouchIds == 1..2

InitTouch ==
    /\ touch = [t \in TouchIds |-> InitTouchData]
    /\ touch_last = [dev |-> 0, type |-> "None", code |-> "None", value |-> 0]
    /\ touch_out = <<>>

\* The display has XInput2 multitouch, or has not and the raw devices are
\* polled; no pump call has polled yet.
InitPoll(supported) ==
    /\ xinput2 \in supported
    /\ poll_i = 0
    /\ polled = <<>>

\* The variable mode info the model keeps: the viewport and the activation.
FbVar(xoffset, yoffset, activate) ==
    [xoffset |-> xoffset, yoffset |-> yoffset, activate |-> activate]

NoVar == FbVar(0, 0, "")

\* The modes the device may be in when the driver opens it.
DevModes == { FbVar(0, 0, "FB_ACTIVATE_VBL"), FbVar(0, 8, "FB_ACTIVATE_VBL") }

\* What the caller passed to an operation (rects), what the operation did
\* with it (copied) and what it returned ("0", "-1" or "void").
Called(rects, copied, ret) == [rects |-> rects, copied |-> copied, ret |-> ret]

\* MSMFB_CreateDevice (lines 150-159): the driver data is zeroed.
InitFb(modes) ==
    /\ fb = [fb_fd |-> 0, fb_var |-> NoVar, fb_var_orig |-> NoVar, fb_mem |-> NULL]
    /\ fb_inited = FALSE
    /\ dev_var \in modes
    /\ open_fds = {}
    /\ mappings = {}
    /\ fb_ops = <<>>
    /\ fb_sys = <<>>
    /\ fb_call = Called(<<>>, <<>>, "")

\* No selection request is in flight, the windows are shown, the mouse is
\* in absolute mode; the application has enabled system-message events or
\* (the default) has not.
InitMore(enabled) ==
    /\ selection_waiting = FALSE
    /\ hidden = [i \in WindowIds |-> FALSE]
    /\ relative_mode = FALSE
    /\ syswm \in enabled
    /\ wmmsgs = <<>>
    /\ xsent = <<>>
    /\ ticks = NoDeadline

InitDisplay(supported) ==
    /\ InitTouch
    /\ InitPoll(supported)
    /\ InitFb({FbVar(0, 0, "FB_ACTIVATE_VBL")})
    /\ pc = "idle"
    /\ stream = <<>>
    /\ head = 0
    /\ now = 0
    /\ windowlist = [i \in WindowIds |-> InitWindowData]
    /\ pending_src = [i \in WindowIds |-> 0]
    /\ keyboard_focus = NULL
    /\ mouse_focus = NULL
    /\ sent = <<>>
    /\ calls = <<>>
    /\ InitMore({FALSE})

\* ... on a display with XInput2 multitouch: the pump call returns after
\* the focus debouncer (lines 709-711).
InitX11 == InitDisplay({TRUE})

\* ... on a display without it: the raw touch devices are read.
InitEvdev == InitDisplay({FALSE})

\* The same, before a device in any of its modes.
InitDriver ==
    /\ InitTouch
    /\ InitPoll({TRUE})
    /\ InitFb(DevModes)
    /\ pc = "idle"
    /\ stream = <<>>
    /\ head = 0
    /\ now = 0
    /\ windowlist = [i \in WindowIds |-> InitWindowData]
    /\ pending_src = [i \in WindowIds |-> 0]
    /\ keyboard_focus = NULL
    /\ mouse_focus = NULL
    /\ sent = <<>>
    /\ calls = <<>>
    /\ InitMore({FALSE})

(***************************************************************************)
(* The environment.                                                        *)
(***************************************************************************)
\* The server delivers one more event, one of E.  Server timestamps never
\* run backwards.
Arrive(E, max) ==
    /\ Len(stream) < max
    /\ \E ev \in E :
         /\ ev.time = 0 \/ ev.time >= MaxTime(stream)
         /\ stream' = Append(stream, ev)
    /\ UNCHANGED <<pc, head, now, windowlist, pending_src, keyboard_focus,
                   mouse_focus, sent, calls, x11more>>
    /\ UNCHANGED <<touchvars, fbvars>>

\* Time passes.
Tick ==
    /\ now + 100 <= MaxNow
    /\ now' = now + 100
    /\ UNCHANGED <<pc, stream, head, windowlist, pending_src, keyboard_focus,
                   mouse_focus, sent, calls, x11more>>
    /\ UNCHANGED <<touchvars, fbvars>>

(***************************************************************************)
(* X11_PumpEvents.                                                         *)
(***************************************************************************)
\* The caller enters X11_PumpEvents (lines 681-699).
X11_PumpEvents ==
    /\ pc = "idle"
    /\ pc' = "events"
    /\ UNCHANGED <<stream, head, now, windowlist, pending_src, keyboard_focus,
                   mouse_focus, sent, calls, x11more>>
    /\ UNCHANGED <<touchvars, fbvars>>

\* An input-method filter that lets every event through.
XFilterEvent_Never(xevent) == FALSE

\* XFilterEvent (line 169): the input method takes the event.
XFilterEvent(xevent) == xevent.im_filtered

\* The hidden flag of a window after the window events of out were given
\* to SDL_SendWindowEvent.
HiddenAfter(out, h) ==
    IF \E k \in 1..Len(out) : out[k].kind = "Hidden" THEN TRUE
    ELSE IF \E k \in 1..Len(out) : out[k].kind = "Shown" THEN FALSE
    ELSE h

\* A forward that comes after the window lookup: only events of a window
\* of the window list are forwarded.
SendSysWM_Resolved(xevent, serial, d) ==
    IF syswm /\ d # NULL
    THEN << [src |-> serial, event |-> xevent, before |-> Len(sent)] >>
    ELSE <<>>

\* The forward of lines 177-185, given the event pulled and the window
\* entry the lookup of lines 199-211 will find: a copy of the event goes to
\* SDL_SendSysWMEvent when the application has enabled SDL_SYSWMEVENT.
\* before is the number of canonical events sent up to then.
SendSysWM(xevent, serial, d) ==
    IF syswm
    THEN << [src |-> serial, event |-> xevent, before |-> Len(sent)] >>
    ELSE <<>>

\* One iteration of the loop of lines 701-703: X11_Pending found an event
\* and X11_DispatchEvent handles it.
X11_DispatchEvent ==
    /\ pc = "events"
    /\ XPending > 0
    /\ LET serial == head + 1
           xevent == stream[serial]
           pending == XPending - 1
           peekevent == IF pending > 0 THEN stream[serial + 1] ELSE NoEvent
           filtered == XFilterEvent(xevent)
           d == LookupWindow(xevent.window)
           dropped == filtered \/ d = NULL
           r == IF dropped
                THEN Result(<<>>, InitWindowData, 0)
                ELSE Classify(xevent, serial, pending, peekevent, d)
       IN  /\ head' = IF r.drain THEN head + 2 ELSE head + 1
           /\ sent' = sent \o r.out
           /\ windowlist' = IF dropped THEN windowlist
                            ELSE [windowlist EXCEPT ![d] = r.win]
           /\ pending_src' = IF dropped THEN pending_src
                             ELSE [pending_src EXCEPT ![d] = r.psrc]
           /\ mouse_focus' = r.mf
           /\ selection_waiting' = r.sw
           /\ hidden' = IF dropped THEN hidden
                        ELSE [hidden EXCEPT ![d] = HiddenAfter(r.out, hidden[d])]
           /\ xsent' = xsent \o r.xout
           /\ wmmsgs' = wmmsgs \o (IF filtered THEN <<>>
                                    ELSE SendSysWM(xevent, serial, d))
           /\ calls' = Append(calls,
                  [serial |-> serial, pending |-> pending,
                   filtered |-> xevent.im_filtered, data |-> d,
                   drained |-> r.drain, now |-> now,
                   queued |-> XPending, peeked |-> r.peek])
    /\ UNCHANGED <<pc, stream, now, keyboard_focus, relative_mode, syswm, ticks>>
    /\ UNCHANGED <<touchvars, fbvars>>

\* A deadline test with the comparison turned around.
FocusExpired_Reversed(data) == data.pending_focus_time - now >= 0

\* X11_HandleFocusChanges (lines 624-646) for one window entry.  The
\* deadline test of line 635, on the Uint32 values of the two ticks.
FocusExpired(data) ==
    DeadlineExpired(Uint32(data.pending_focus_time), Uint32(now))

FocusChange(i) ==
    LET data == windowlist[i] IN
    IF data.pending_focus # "PENDING_FOCUS_NONE" /\ FocusExpired(data)
    THEN [out |-> IF data.pending_focus = "PENDING_FOCUS_IN"
                  THEN << Canon("FocusIn", pending_src[i], i, 0, 0) >>
                  ELSE << Canon("FocusOut", pending_src[i], i, 0, 0) >>,
          data |-> [data EXCEPT !.pending_focus = "PENDING_FOCUS_NONE"],
          kf |-> << IF data.pending_focus = "PENDING_FOCUS_IN" THEN i ELSE NULL >>]
    ELSE [out |-> <<>>, data |-> data, kf |-> <<>>]

RECURSIVE FocusOuts(_)
FocusOuts(i) ==
    IF i \notin WindowIds THEN <<>>
    ELSE FocusChange(i).out \o FocusOuts(i + 1)

RECURSIVE FocusKf(_, _)
FocusKf(i, kf) ==
    IF i \notin WindowIds THEN kf
    ELSE FocusKf(i + 1, IF FocusChange(i).kf = <<>> THEN kf
                        ELSE FocusChange(i).kf[1])

\* A pump call that reads the raw touch devices on every display.
TouchPolled_Always(supported) == TRUE

\* if(X11_Xinput2IsMultitouchSupported()) return;  (lines 709-711)
TouchPolled(supported) == ~supported

\* The loop of lines 701-703 ends (X11_Pending returns 0), the focus
\* debouncer runs over the window list and the pump call returns, or goes
\* on to the raw touch devices (int i = 0, lines 715 and 720).
X11_HandleFocusChanges ==
    /\ pc = "events"
    /\ XPending = 0
    /\ windowlist' = [i \in WindowIds |-> FocusChange(i).data]
    /\ sent' = sent \o FocusOuts(1)
    /\ keyboard_focus' = FocusKf(1, keyboard_focus)
    /\ IF TouchPolled(xinput2)
       THEN pc' = "touch" /\ poll_i' = 0 /\ polled' = <<>>
       ELSE pc' = "idle" /\ UNCHANGED <<poll_i, polled>>
    /\ UNCHANGED <<stream, head, now, pending_src, mouse_focus, calls, x11more>>
    /\ UNCHANGED <<touch, touch_last, touch_out, xinput2, fbvars>>

(***************************************************************************)
(* The specifications: the same pump under the event families the server   *)
(* may deliver.                                                            *)
(***************************************************************************)
Pump ==
    \/ X11_PumpEvents
    \/ X11_DispatchEvent
    \/ X11_HandleFocusChanges

Press(b, t) == [XEvent("ButtonPress", XWindowOf(1)) EXCEPT !.button = b, !.time = t]
Release(b, t) == [XEvent("ButtonRelease", XWindowOf(1)) EXCEPT !.button = b, !.time = t]

\* Clicks and wheel ticks on window entry 1, and a wheel tick on a foreign
\* window or taken by the input method.
ButtonEvents ==
    { Press(b, t) : b \in {1, Button4}, t \in {1, 2} }
    \cup { Release(b, t) : b \in {1, Button4}, t \in {1, 2} }
    \cup { Press(Button5, 1), Release(Button5, 1),
           [Press(Button4, 1) EXCEPT !.window = ForeignWindow],
           [Press(Button4, 1) EXCEPT !.im_filtered = TRUE] }

NextButton == Arrive(ButtonEvents, MaxEvents) \/ Pump

SpecButton == InitX11 /\ [][NextButton]_vars

(***************************************************************************)
(* Reading the histories.                                                  *)
(***************************************************************************)
\* How many canonical events of a kind the handling of native event i sent.
SentFor(kind, i) ==
    Cardinality({ k \in 1..Len(sent) : sent[k].kind = kind /\ sent[k].src = i })

\* The X11_DispatchEvent calls that pulled native event i (none when the
\* event is still queued or was drained by a lookahead).
CallsOf(i) == { k \in 1..Len(calls) : calls[k].serial = i }

\* Native event i was pulled by a call that found its window and was not
\* stopped by the input-method filter.
Classified(i) ==
    \E k \in CallsOf(i) : ~calls[k].filtered /\ calls[k].data # NULL

\* ... and the event after it was already queued at that moment.
ClassifiedWithPeek(i) ==
    \E k \in CallsOf(i) :
        ~calls[k].filtered /\ calls[k].data # NULL /\ calls[k].pending > 0

\* Events i and i+1 of the stream are a press and a release of the same
\* button with the same timestamp.
WheelPair(i) ==
    /\ i + 1 <= Len(stream)
    /\ stream[i].type = "ButtonPress"
    /\ stream[i + 1].type = "ButtonRelease"
    /\ stream[i + 1].button = stream[i].button
    /\ stream[i + 1].time = stream[i].time

OneWheelNoButtons(i) ==
    /\ SentFor("MouseWheel", i) = 1
    /\ SentFor("MouseButtonDown", i) = 0
    /\ SentFor("MouseButtonUp", i + 1) = 0

(***************************************************************************)
(* C1 (as stated): every press followed in the stream by a release of the  *)
(* same button and timestamp yields, once both are processed, exactly one  *)
(* wheel event and no button-down or button-up, whatever the pump calls    *)
(* that processed them.  (The press is taken to reach the classification:  *)
(* its window resolves and the input method leaves it alone.)              *)
(***************************************************************************)
C1_AsStated ==
    \A i \in 1..Len(stream) :
        (WheelPair(i) /\ Classified(i) /\ head >= i + 1)
            => OneWheelNoButtons(i)

(***************************************************************************)
(* C1 (amended): when the press is classified while its release is already *)
(* queued behind it, exactly one wheel event is sent for the pair, no      *)
(* button-down and no button-up, and the release is never dispatched on    *)
(* its own.                                                                *)
(***************************************************************************)
C1_WheelPair ==
    \A i \in 1..Len(stream) :
        (WheelPair(i) /\ ClassifiedWithPeek(i))
            => /\ OneWheelNoButtons(i)
               /\ CallsOf(i + 1) = {}
               /\ head >= i + 1

C1_Witness ==
    \E i \in 1..Len(stream) :
        /\ WheelPair(i) /\ ClassifiedWithPeek(i)
        /\ stream[i].button = Button4
        /\ SentFor("MouseWheel", i) = 1
        /\ pc = "idle"

(***************************************************************************)
(* C8: every wheel event carries +1 (Button4) or -1 (Button5) ticks.       *)
(***************************************************************************)
C8_WheelTicks ==
    \A k \in 1..Len(sent) :
        sent[k].kind = "MouseWheel"
            => \/ sent[k].b = 1 /\ stream[sent[k].src].button = Button4
               \/ sent[k].b = -1 /\ stream[sent[k].src].button = Button5

(***************************************************************************)
(* C9: a press of Button1 at i whose release, the next Button1 event of    *)
(* the stream, carries another timestamp: the press sends exactly one      *)
(* button-down and no wheel event, the release exactly one button-up.      *)
(***************************************************************************)
HeldClick(i, j) ==
    /\ i < j /\ j <= Len(stream)
    /\ stream[i].type = "ButtonPress" /\ stream[i].button = 1
    /\ stream[j].type = "ButtonRelease" /\ stream[j].button = 1
    /\ stream[j].time # stream[i].time
    /\ stream[j].window = stream[i].window
    /\ ~stream[j].im_filtered
    /\ \A m \in (i + 1)..(j - 1) :
          ~(stream[m].type \in {"ButtonPress", "ButtonRelease"}
            /\ stream[m].button = 1)

C9_HeldClick ==
    \A i \in 1..Len(stream), j \in 1..Len(stream) :
        (HeldClick(i, j) /\ Classified(i))
            => /\ SentFor("MouseButtonDown", i) = 1
               /\ SentFor("MouseWheel", i) = 0
               /\ SentFor("MouseButtonUp", i) = 0
               /\ head >= j =>
                    /\ Classified(j)
                    /\ SentFor("MouseButtonUp", j) = 1
                    /\ SentFor("MouseWheel", j) = 0
                    /\ SentFor("MouseButtonDown", j) = 0

C9_Witness ==
    \E i \in 1..Len(stream), j \in 1..Len(stream) :
        /\ HeldClick(i, j) /\ Classified(i) /\ Classified(j)
        /\ SentFor("MouseButtonUp", j) = 1

(***************************************************************************)
(* Key events: presses and releases of two keys, within and outside the    *)
(* repeat window of each other.                                            *)
(***************************************************************************)
Key(type, code, t) ==
    [XEvent(type, XWindowOf(1)) EXCEPT !.keycode = code, !.time = t]

KeyEvents ==
    { Key("KeyRelease", 38, t) : t \in {1, 2, 3} }
    \cup { Key("KeyPress", c, t) : c \in {38, 39}, t \in {1, 2, 3} }
    \cup { [Key("KeyRelease", 38, 1) EXCEPT !.im_filtered = TRUE],
           [Key("KeyPress", 38, 2) EXCEPT !.text = "a"] }

NextKey == Arrive(KeyEvents, MaxEvents) \/ Pump

SpecKey == InitX11 /\ [][NextKey]_vars

\* Events i and i+1 of the stream are a release and a press of the same key
\* with the press stamped less than 2 after the release.
RepeatPair(i) ==
    /\ i + 1 <= Len(stream)
    /\ stream[i].type = "KeyRelease"
    /\ stream[i + 1].type = "KeyPress"
    /\ stream[i + 1].keycode = stream[i].keycode
    /\ stream[i + 1].time - stream[i].time < 2

(***************************************************************************)
(* C2 (as stated): a release followed in the stream by a press of the same *)
(* key within the repeat window is never sent as a key-up.                 *)
(***************************************************************************)
C2_AsStated ==
    \A i \in 1..Len(stream) :
        RepeatPair(i) => SentFor("KeyUp", i) = 0

(***************************************************************************)
(* C2 (amended): a release whose repeat press is already queued behind it  *)
(* when the release is dispatched is never sent as a key-up; the press     *)
(* stays queued.                                                           *)
(***************************************************************************)
C2_KeyRepeat ==
    \A i \in 1..Len(stream) :
        (RepeatPair(i) /\ \A k \in CallsOf(i) : calls[k].pending > 0)
            => /\ SentFor("KeyUp", i) = 0
               /\ \A k \in CallsOf(i) : ~calls[k].drained

C2_Witness ==
    \E i \in 1..Len(stream) :
        /\ RepeatPair(i) /\ ClassifiedWithPeek(i)
        /\ stream[i + 1].time = stream[i].time + 1
        /\ SentFor("KeyDown", i + 1) = 1

(***************************************************************************)
(* Focus events on both window entries, with and without the detail that   *)
(* names a descendant, while time passes.                                  *)
(***************************************************************************)
Focus(type, w, detail) == [XEvent(type, XWindowOf(w)) EXCEPT !.detail = detail]

FocusEvents ==
    { Focus(t, 1, dt) : t \in {"FocusIn", "FocusOut"},
                        dt \in {"NotifyAncestor", "NotifyInferior"} }
    \cup { Focus("FocusOut", 2, "NotifyAncestor") }

NextFocus == Arrive(FocusEvents, MaxFocusEvents) \/ Tick \/ Pump

SpecFocus == InitX11 /\ [][NextFocus]_vars

\* A step of X11_DispatchEvent that reaches the switch with a FocusIn or a
\* FocusOut for window entry d.
FocusDispatch(d) ==
    /\ head' # head
    /\ stream[head + 1].type \in {"FocusIn", "FocusOut"}
    /\ ~stream[head + 1].im_filtered
    /\ LookupWindow(stream[head + 1].window) = d

PendingOf(type) ==
    IF type = "FocusIn" THEN "PENDING_FOCUS_IN" ELSE "PENDING_FOCUS_OUT"

DelayOf(type) ==
    IF type = "FocusIn" THEN PENDING_FOCUS_IN_TIME ELSE PENDING_FOCUS_OUT_TIME

PendingFocusOk ==
    \A d \in WindowIds :
        windowlist[d].pending_focus \in
            {"PENDING_FOCUS_NONE", "PENDING_FOCUS_IN", "PENDING_FOCUS_OUT"}

FocusRecorded ==
    \A d \in WindowIds :
        FocusDispatch(d) =>
            /\ IF stream[head + 1].detail = "NotifyInferior"
               THEN windowlist'[d] = windowlist[d]
               ELSE /\ windowlist'[d].pending_focus = PendingOf(stream[head + 1].type)
                    /\ windowlist'[d].pending_focus_time
                         = now + DelayOf(stream[head + 1].type)
            /\ \A e \in WindowIds \ {d} : windowlist'[e] = windowlist[e]

(***************************************************************************)
(* C3: a window holds one pending focus transition, None, In or Out, with  *)
(* one deadline; a FocusIn or FocusOut that is not NotifyInferior          *)
(* overwrites it, whatever it was, and sets the deadline to the current    *)
(* tick plus the delay of its kind; one that is NotifyInferior leaves the  *)
(* pending transition and its deadline as they were.                       *)
(***************************************************************************)
C3_OnePendingFocus == [](PendingFocusOk) /\ [][FocusRecorded]_vars

\* An Out overwritten by an In on entry 1, and an In overwritten by an Out.
C3_Witness ==
    \E i \in 1..Len(stream), j \in 1..Len(stream) :
        /\ i < j /\ Classified(i) /\ Classified(j)
        /\ stream[i] = Focus("FocusOut", 1, "NotifyAncestor")
        /\ stream[j] = Focus("FocusIn", 1, "NotifyAncestor")
        /\ calls[Len(calls)].serial = j
        /\ windowlist[1].pending_focus = "PENDING_FOCUS_IN"
        /\ windowlist[1].pending_focus_time = now + PENDING_FOCUS_IN_TIME
        /\ now > 0

\* Native event i is a FocusOut for entry w that the dispatcher recorded,
\* and j a later FocusIn for w that it recorded before i's deadline.
RecordedAt(i) == calls[CHOOSE k \in CallsOf(i) : TRUE].now

OutThenIn(i, j, w) ==
    /\ i < j
    /\ stream[i] = Focus("FocusOut", w, "NotifyAncestor")
    /\ stream[j] = Focus("FocusIn", w, "NotifyAncestor")
    /\ Classified(i) /\ Classified(j)
    /\ RecordedAt(j) < RecordedAt(i) + PENDING_FOCUS_OUT_TIME

(***************************************************************************)
(* C4: a FocusOut followed, before its deadline, by a FocusIn for the same *)
(* window: the pending transition is In with the deadline of the FocusIn   *)
(* (its tick plus the focus-in delay) until that fires or is overwritten,  *)
(* and the focus-out action is never dispatched for that FocusOut.         *)
(***************************************************************************)
C4_OutCancelledByIn ==
    \A i \in 1..Len(stream), j \in 1..Len(stream), w \in WindowIds :
        OutThenIn(i, j, w) =>
            /\ SentFor("FocusOut", i) = 0
            /\ (pending_src[w] = j /\ SentFor("FocusIn", j) = 0) =>
                 /\ windowlist[w].pending_focus = "PENDING_FOCUS_IN"
                 /\ windowlist[w].pending_focus_time
                      = RecordedAt(j) + PENDING_FOCUS_IN_TIME

\* The FocusIn has fired, in a pump call after the FocusOut's deadline.
C4_Witness ==
    \E i \in 1..Len(stream), j \in 1..Len(stream) :
        /\ OutThenIn(i, j, 1)
        /\ RecordedAt(j) > RecordedAt(i)
        /\ SentFor("FocusIn", j) = 1
        /\ now > RecordedAt(i) + PENDING_FOCUS_OUT_TIME
        /\ keyboard_focus = 1

(***************************************************************************)
(* ConfigureNotify events: moves, resizes, both and neither, on a window   *)
(* entry, on a foreign window and taken by the input method.               *)
(***************************************************************************)
Configure(w, x, y, width, height) ==
    [XEvent("ConfigureNotify", XWindowOf(w))
        EXCEPT !.x = x, !.y = y, !.width = width, !.height = height]

ConfigureEvents ==
    { Configure(1, 0, 0, 0, 0), Configure(1, 0, 0, 1, 1), Configure(1, 1, 0, 1, 1),
      Configure(1, 0, 1, 1, 1), Configure(1, 0, 0, 2, 1), Configure(1, 0, 0, 1, 2),
      Configure(1, 1, 1, 2, 2), Configure(2, 1, 0, 1, 1), Configure(0, 1, 0, 1, 1),
      [Configure(1, 1, 1, 2, 2) EXCEPT !.im_filtered = TRUE] }

NextConfigure == Arrive(ConfigureEvents, MaxEvents) \/ Pump

SpecConfigure == InitX11 /\ [][NextConfigure]_vars

\* What a step added to the canonical events.
NewlySent == SubSeq(sent', Len(sent) + 1, Len(sent'))

ConfigureCompared ==
    \A d \in WindowIds :
        (/\ head' # head
         /\ stream[head + 1].type = "ConfigureNotify"
         /\ ~stream[head + 1].im_filtered
         /\ LookupWindow(stream[head + 1].window) = d)
        => LET e == stream[head + 1]
               last == windowlist[d].last_xconfigure
               moved == Canon("Moved", head + 1, d, e.x, e.y)
               resized == Canon("Resized", head + 1, d, e.width, e.height)
               isMoved == e.x # last.x \/ e.y # last.y
               isResized == e.width # last.width \/ e.height # last.height
           IN  /\ NewlySent = (IF isMoved THEN <<moved>> ELSE <<>>)
                              \o (IF isResized THEN <<resized>> ELSE <<>>)
               /\ windowlist'[d].last_xconfigure = Geometry(e)

(***************************************************************************)
(* C5: a ConfigureNotify for a resolved window sends a moved event exactly *)
(* when x or y differs from the last recorded geometry, a resized event    *)
(* exactly when width or height differs, and records the geometry of the   *)
(* event; so one that repeats the recorded geometry sends nothing.         *)
(***************************************************************************)
C5_ConfigureNotify == [][ConfigureCompared]_vars

\* The same geometry twice: the first moved and resized, the second was
\* dispatched and sent nothing.
C5_Witness ==
    \E i \in 1..Len(stream) :
        /\ i + 1 <= Len(stream)
        /\ stream[i] = Configure(1, 1, 1, 2, 2)
        /\ stream[i + 1] = stream[i]
        /\ Classified(i) /\ Classified(i + 1)
        /\ SentFor("Moved", i) = 1 /\ SentFor("Resized", i) = 1
        /\ SentFor("Moved", i + 1) = 0 /\ SentFor("Resized", i + 1) = 0
        /\ windowlist[1].last_xconfigure = Geometry(stream[i])

(***************************************************************************)
(* The raw touch reader, lines 733-787: the handling of one input_event    *)
(* read from the event stream of touch device id, whose EventTouchData is  *)
(* data.  The result is the new data and the canonical events sent.        *)
(***************************************************************************)
Finger(kind, id, data, down) ==
    [kind |-> kind, id |-> id, finger |-> data.finger, down |-> down,
     x |-> data.x, y |-> data.y, pressure |-> data.pressure]

\* A commit that keeps the up mark after the finger-up.
TouchSync_KeepUp(id, data) ==
    IF ~data.down
    THEN LET d2 == [data EXCEPT !.down = TRUE]
         IN  [data |-> d2, out |-> << Finger("FingerDown", id, d2, TRUE) >>]
    ELSE IF ~data.up
    THEN [data |-> data, out |-> << Finger("TouchMotion", id, data, FALSE) >>]
    ELSE LET d2 == [data EXCEPT !.down = FALSE]
         IN  [data |-> [d2 EXCEPT !.x = -1, !.y = -1, !.pressure = -1,
                                  !.finger = 0],
              out |-> << Finger("FingerDown", id, d2, FALSE) >>]

\* case EV_SYN (lines 762-785)
TouchSync(id, data) ==
    IF ~data.down
    THEN LET d2 == [data EXCEPT !.down = TRUE]
         IN  [data |-> d2, out |-> << Finger("FingerDown", id, d2, TRUE) >>]
    ELSE IF ~data.up
    THEN [data |-> data, out |-> << Finger("TouchMotion", id, data, FALSE) >>]
    ELSE LET d2 == [data EXCEPT !.down = FALSE]
         IN  [data |-> [d2 EXCEPT !.x = -1, !.y = -1, !.pressure = -1,
                                  !.finger = 0, !.up = FALSE],
              out |-> << Finger("FingerDown", id, d2, FALSE) >>]

Quiet(data) == [data |-> data, out |-> <<>>]

TouchInput(id, data, ev) ==
    CASE ev.type = "EV_ABS" /\ ev.code = "ABS_X" ->
             Quiet([data EXCEPT !.x = ev.value])
      [] ev.type = "EV_ABS" /\ ev.code = "ABS_Y" ->
             Quiet([data EXCEPT !.y = ev.value])
      [] ev.type = "EV_ABS" /\ ev.code = "ABS_PRESSURE" ->
             Quiet([data EXCEPT !.pressure = IF ev.value < 0 THEN 0 ELSE ev.value])
      [] ev.type = "EV_ABS" /\ ev.code = "ABS_MISC" ->
             Quiet(IF ev.value = 0 THEN [data EXCEPT !.up = TRUE] ELSE data)
      [] ev.type = "EV_MSC" /\ ev.code = "MSC_SERIAL" ->
             Quiet([data EXCEPT !.finger = ev.value])
      [] ev.type = "EV_KEY" /\ ev.code = "BTN_TOUCH" ->
             Quiet(IF ev.value = 0 THEN [data EXCEPT !.up = TRUE] ELSE data)
      [] ev.type = "EV_SYN" -> TouchSync(id, data)
      [] OTHER -> Quiet(data)

InputEvent(type, code, value) == [type |-> type, code |-> code, value |-> value]

\* What a touch device may deliver.
InputEvents ==
    { InputEvent("EV_ABS", "ABS_X", 5), InputEvent("EV_ABS", "ABS_Y", 6),
      InputEvent("EV_ABS", "ABS_PRESSURE", 9), InputEvent("EV_ABS", "ABS_PRESSURE", -2),
      InputEvent("EV_ABS", "ABS_MISC", 0), InputEvent("EV_ABS", "ABS_MISC", 1),
      InputEvent("EV_MSC", "MSC_SERIAL", 3),
      InputEvent("EV_KEY", "BTN_TOUCH", 0), InputEvent("EV_KEY", "BTN_TOUCH", 1),
      InputEvent("EV_SYN", "SYN_REPORT", 0), InputEvent("EV_REL", "REL_X", 1) }

\* One iteration of the loop of line 733 for touch device id.
X11_TouchInput ==
    \E id \in TouchIds, ev \in InputEvents :
        LET r == TouchInput(id, touch[id], ev)
        IN  /\ touch' = [touch EXCEPT ![id] = r.data]
            /\ touch_out' = r.out
            /\ touch_last' = [dev |-> id, type |-> ev.type, code |-> ev.code,
                              value |-> ev.value]
            /\ UNCHANGED <<xinput2, poll_i, polled>>
            /\ UNCHANGED <<x11vars, fbvars>>

NextTouch == X11_TouchInput

SpecTouch == InitEvdev /\ [][NextTouch]_vars

SyncCommits ==
    \A id \in TouchIds :
        (touch_last'.dev = id /\ touch_last'.type = "EV_SYN") =>
            LET data == touch[id]
                after == touch'[id]
            IN  /\ Len(touch_out') = 1
                /\ touch_out'[1].id = id
                /\ IF ~data.down
                   THEN /\ touch_out'[1].kind = "FingerDown" /\ touch_out'[1].down
                        /\ after = [data EXCEPT !.down = TRUE]
                   ELSE IF ~data.up
                   THEN /\ touch_out'[1].kind = "TouchMotion"
                        /\ after = data
                   ELSE /\ touch_out'[1].kind = "FingerDown" /\ ~touch_out'[1].down
                        /\ after = InitTouchData
                /\ \A o \in TouchIds \ {id} : touch'[o] = touch[o]

(***************************************************************************)
(* C6: every sync marker of a touch device commits exactly one canonical   *)
(* event, chosen by the state of the device: finger-down when down is      *)
(* clear (and down is set), motion when down is set and up is clear,       *)
(* finger-up when both are set, after which down and up are clear and the  *)
(* fields are x = -1, y = -1, pressure = -1, finger = 0.                   *)
(***************************************************************************)
C6_SyncCommitsOne == [][SyncCommits]_vars

\* A finger-up was just committed on device 1 after a sample with data.
C6_Witness ==
    /\ touch_last.dev = 1 /\ touch_last.type = "EV_SYN"
    /\ Len(touch_out) = 1
    /\ touch_out[1].kind = "FingerDown" /\ ~touch_out[1].down
    /\ touch_out[1].x = 5 /\ touch_out[1].pressure = 0 /\ touch_out[1].finger = 3
    /\ touch[1] = InitTouchData

\* The sub-events that mark the release of the finger (lines 747-750 and
\* 757-760).
UpMark(ev) ==
    /\ \/ ev.type = "EV_ABS" /\ ev.code = "ABS_MISC"
       \/ ev.type = "EV_KEY" /\ ev.code = "BTN_TOUCH"
    /\ ev.value = 0

BothSet(data) == data.down /\ data.up

(***************************************************************************)
(* C19 (as stated): in every state of a touch device the down flag and     *)
(* the up flag are not both set.                                           *)
(***************************************************************************)
C19_AsStated == \A id \in TouchIds : ~BothSet(touch[id])

\* The flags of a device become both set only by a release mark received
\* while down is set, or by a sync that sets down while a release mark is
\* recorded; the next sync of the device sends finger-up and clears both.
DownAndUp ==
    \A id \in TouchIds :
        /\ (BothSet(touch'[id]) /\ ~BothSet(touch[id])) =>
             /\ touch_last'.dev = id
             /\ \/ UpMark(touch_last') /\ touch[id].down
                \/ touch_last'.type = "EV_SYN" /\ ~touch[id].down /\ touch[id].up
        /\ (BothSet(touch[id]) /\ touch_last'.dev = id) =>
             IF touch_last'.type = "EV_SYN"
             THEN /\ ~touch'[id].down /\ ~touch'[id].up
                  /\ Len(touch_out') = 1
                  /\ touch_out'[1].kind = "FingerDown" /\ ~touch_out'[1].down
             ELSE BothSet(touch'[id])

(***************************************************************************)
(* C19 (amended): the down flag and the up flag of a touch device are      *)
(* clear at the start; they are both set from a release mark (ABS_MISC or  *)
(* BTN_TOUCH with value 0) received while down is set, or from a sync that *)
(* sets down while a release mark is recorded, until the next sync of the  *)
(* device, which sends finger-up and clears both.                          *)
(***************************************************************************)
C19_DownAndUp ==
    (\A id \in TouchIds : ~BothSet(touch[id]) /\ ~touch[id].up)
        /\ [][DownAndUp]_vars

\* Device 1 is down and has just received BTN_TOUCH 0: both flags are set.
C19_Witness ==
    /\ BothSet(touch[1])
    /\ touch_last.dev = 1 /\ touch_last.code = "BTN_TOUCH" /\ touch_last.value = 0
    /\ touch[1].x = 5

(***************************************************************************)
(* The MSM framebuffer driver.  Every operation appends its name to fb_ops *)
(* and the system calls it makes to fb_sys; the kernel decides whether a   *)
(* call succeeds (a call on a descriptor that is not open always fails).   *)
(***************************************************************************)
MaxFbOps == 5
MAP_FAILED == -1
\* The descriptor open() returns for the device.
DeviceFd == 3

Sys(call, a, req, val, ok) ==
    [op |-> Len(fb_ops) + 1, call |-> call, a |-> a, req |-> req,
     val |-> val, ok |-> ok]

\* MSMFB_VideoInit (lines 171-244).  fail names the step that fails, if any.
MSMFB_VideoInit ==
    /\ fb_ops = <<>>
    /\ \E fail \in {"none", "open", "fix", "var", "format", "display"} :
         LET fd == IF fail = "open" THEN -1 ELSE DeviceFd
             sOpen == << Sys("open", fd, "", NoVar, fail # "open") >>
             sFix == << Sys("ioctl", fd, "FBIOGET_FSCREENINFO", NoVar, fail # "fix") >>
             sVar == << Sys("ioctl", fd, "FBIOGET_VSCREENINFO", dev_var, fail # "var") >>
         IN  /\ open_fds' = IF fail = "open" THEN open_fds ELSE open_fds \cup {fd}
             /\ fb_sys' = fb_sys \o sOpen
                    \o (IF fail = "open" THEN <<>> ELSE sFix)
                    \o (IF fail \in {"open", "fix"} THEN <<>> ELSE sVar)
             /\ fb' = IF fail \in {"open", "fix", "var"}
                      THEN [fb EXCEPT !.fb_fd = fd]
                      ELSE [fb EXCEPT !.fb_fd = fd, !.fb_var = dev_var,
                                      !.fb_var_orig = dev_var]
             /\ fb_inited' = (fail = "none")
             /\ fb_call' = Called(<<>>, <<>>, IF fail = "none" THEN "0" ELSE "-1")
    /\ fb_ops' = Append(fb_ops, "VideoInit")
    /\ UNCHANGED <<dev_var, mappings>>
    /\ UNCHANGED <<x11vars, touchvars>>

\* A shutdown that gives up when the restore fails.
QuitCalls_GiveUp(ok) ==
    << Sys("ioctl", fb.fb_fd, "FBIOPUT_VSCREENINFO", fb.fb_var_orig,
           ok /\ fb.fb_fd \in open_fds) >>
    \o (IF fb.fb_fd # 0 /\ ok
        THEN << Sys("close", fb.fb_fd, "", NoVar, fb.fb_fd \in open_fds) >>
        ELSE <<>>)

\* The system calls of MSMFB_VideoQuit (lines 261-266).
QuitCalls(ok) ==
    << Sys("ioctl", fb.fb_fd, "FBIOPUT_VSCREENINFO", fb.fb_var_orig,
           ok /\ fb.fb_fd \in open_fds) >>
    \o (IF fb.fb_fd # 0
        THEN << Sys("close", fb.fb_fd, "", NoVar, fb.fb_fd \in open_fds) >>
        ELSE <<>>)

\* MSMFB_VideoQuit (lines 255-268)
MSMFB_VideoQuit ==
    /\ fb_ops # <<>>
    /\ Len(fb_ops) < MaxFbOps
    /\ \E ok \in BOOLEAN :
         /\ fb_sys' = fb_sys \o QuitCalls(ok)
         /\ dev_var' = IF ok /\ fb.fb_fd \in open_fds THEN fb.fb_var_orig ELSE dev_var
    /\ open_fds' = IF fb.fb_fd # 0 THEN open_fds \ {fb.fb_fd} ELSE open_fds
    /\ fb' = [fb EXCEPT !.fb_fd = 0]
    /\ fb_ops' = Append(fb_ops, "VideoQuit")
    /\ fb_call' = Called(<<>>, <<>>, "void")
    /\ UNCHANGED <<fb_inited, mappings>>
    /\ UNCHANGED <<x11vars, touchvars>>

\* A fresh address for a new mapping.
FreshAddress == 1000 + Len(fb_sys)

\* MSMFB_CreateWindowFramebuffer (lines 279-337).  fail names the step that
\* fails: the mapping, the pan (a hard error) or the mode set (a warning).
MSMFB_CreateWindowFramebuffer ==
    /\ fb_inited
    /\ Len(fb_ops) < MaxFbOps
    /\ \E fail \in {"none", "mmap", "pan", "put"} :
         LET mapped == fail # "mmap" /\ fb.fb_fd \in open_fds
             addr == IF mapped THEN FreshAddress ELSE MAP_FAILED
             needPan == fb.fb_var.xoffset # 0 \/ fb.fb_var.yoffset # 0
             panned == [fb.fb_var EXCEPT !.xoffset = 0, !.yoffset = 0]
             panOk == fail # "pan" /\ fb.fb_fd \in open_fds
             final == [panned EXCEPT
                          !.activate = "FB_ACTIVATE_NOW|ALL|FORCE"]
             putOk == fail # "put" /\ fb.fb_fd \in open_fds
             devPanned == [dev_var EXCEPT !.xoffset = 0, !.yoffset = 0]
             sMap == << Sys("mmap", fb.fb_fd, "", NoVar, mapped) >>
             sPan == << Sys("ioctl", fb.fb_fd, "FBIOPAN_DISPLAY", panned, panOk) >>
             sPut == << Sys("ioctl", fb.fb_fd, "FBIOPUT_VSCREENINFO", final, putOk) >>
         IN  /\ fail = "pan" => needPan
             /\ mappings' = IF mapped THEN mappings \cup {addr} ELSE mappings
             /\ fb_call' = Called(<<>>, <<>>,
                    IF ~mapped \/ (needPan /\ ~panOk) THEN "-1" ELSE "0")
             /\ IF ~mapped
                THEN /\ fb' = [fb EXCEPT !.fb_mem = addr]
                     /\ fb_sys' = fb_sys \o sMap
                     /\ dev_var' = dev_var
                ELSE IF needPan /\ ~panOk
                THEN /\ fb' = [fb EXCEPT !.fb_mem = addr, !.fb_var = panned]
                     /\ fb_sys' = fb_sys \o sMap \o sPan
                     /\ dev_var' = dev_var
                ELSE /\ fb' = [fb EXCEPT !.fb_mem = addr, !.fb_var = final]
                     /\ fb_sys' = fb_sys \o sMap
                            \o (IF needPan THEN sPan ELSE <<>>) \o sPut
                     /\ dev_var' = IF putOk THEN final
                                   ELSE IF needPan THEN devPanned ELSE dev_var
    /\ fb_ops' = Append(fb_ops, "CreateWindowFramebuffer")
    /\ UNCHANGED <<fb_inited, open_fds>>
    /\ UNCHANGED <<x11vars, touchvars>>

\* The window the framebuffer belongs to (window->w, window->h).
WindowSize == [w |-> 4, h |-> 4]

Rect(x, y, w, h) == [x |-> x, y |-> y, w |-> w, h |-> h]

\* The body of the loop of lines 348-377 for one rectangle: the rectangle
\* clipped to the window, or nothing when it is clipped away.
ClipRect(r) ==
    IF r.w <= 0 \/ r.h <= 0 \/ r.x + r.w <= 0 \/ r.y + r.h <= 0
    THEN <<>>
    ELSE LET x == IF r.x < 0 THEN r.x + r.w ELSE r.x
             w1 == IF r.x < 0 THEN r.w + r.x ELSE r.w
             y == IF r.y < 0 THEN r.y + r.h ELSE r.y
             h1 == IF r.y < 0 THEN r.h + r.y ELSE r.h
             w == IF x + w1 > WindowSize.w THEN WindowSize.w - x ELSE w1
             h == IF y + h1 > WindowSize.h THEN WindowSize.h - y ELSE h1
         IN  << Rect(x, y, w, h) >>

RECURSIVE ClipRects(_)
ClipRects(rects) ==
    IF rects = <<>> THEN <<>>
    ELSE ClipRect(Head(rects)) \o ClipRects(Tail(rects))

\* msmfb_display_commit (lines 72-85)
msmfb_display_commit(fd, ok) ==
    << Sys("ioctl", fd, "MSMFB_DISPLAY_COMMIT", NoVar, ok /\ fd \in open_fds) >>

\* An update that commits once per rectangle it kept.
UpdateCalls_PerRect(rects, ok) ==
    IF ClipRects(rects) = <<>> THEN <<>>
    ELSE [k \in 1..Len(ClipRects(rects)) |-> msmfb_display_commit(fb.fb_fd, ok)[1]]

\* The system calls of MSMFB_UpdateWindowFramebuffer: the loop over the
\* rectangles makes none, one display commit follows it (line 380).
UpdateCalls(rects, ok) == msmfb_display_commit(fb.fb_fd, ok)

\* The damage a caller may pass: nothing, a rectangle inside the window,
\* rectangles clipped away, one that sticks out.
DamageLists ==
    { <<>>, << Rect(1, 1, 2, 2) >>, << Rect(0, 0, 0, 3) >>,
      << Rect(-5, 0, 2, 2), Rect(1, 1, 0, 0) >>,
      << Rect(-1, 2, 3, 9), Rect(1, 1, 2, 2) >> }

\* MSMFB_UpdateWindowFramebuffer (lines 339-382)
MSMFB_UpdateWindowFramebuffer ==
    /\ fb_inited
    /\ Len(fb_ops) < MaxFbOps
    /\ \E rects \in DamageLists, ok \in BOOLEAN :
         /\ fb_sys' = fb_sys \o UpdateCalls(rects, ok)
         /\ fb_call' = Called(rects, ClipRects(rects), "0")
    /\ fb_ops' = Append(fb_ops, "UpdateWindowFramebuffer")
    /\ UNCHANGED <<fb, fb_inited, dev_var, open_fds, mappings>>
    /\ UNCHANGED <<x11vars, touchvars>>

\* A release that forgets to clear fb_mem.
DestroyedMem_Kept(mem) == mem

\* fb_mem after MSMFB_DestroyWindowFramebuffer (line 392).
DestroyedMem(mem) == IF mem # 0 THEN NULL ELSE mem

\* MSMFB_DestroyWindowFramebuffer (lines 384-395)
MSMFB_DestroyWindowFramebuffer ==
    /\ fb_inited
    /\ Len(fb_ops) < MaxFbOps
    /\ IF fb.fb_mem # 0
       THEN /\ fb_sys' = fb_sys \o << Sys("munmap", fb.fb_mem, "", NoVar,
                                          fb.fb_mem \in mappings) >>
            /\ mappings' = mappings \ {fb.fb_mem}
       ELSE UNCHANGED <<fb_sys, mappings>>
    /\ fb' = [fb EXCEPT !.fb_mem = DestroyedMem(fb.fb_mem)]
    /\ fb_ops' = Append(fb_ops, "DestroyWindowFramebuffer")
    /\ fb_call' = Called(<<>>, <<>>, "void")
    /\ UNCHANGED <<fb_inited, dev_var, open_fds>>
    /\ UNCHANGED <<x11vars, touchvars>>

NextFb ==
    \/ MSMFB_VideoInit
    \/ MSMFB_CreateWindowFramebuffer
    \/ MSMFB_UpdateWindowFramebuffer
    \/ MSMFB_DestroyWindowFramebuffer
    \/ MSMFB_VideoQuit

SpecFb == InitDriver /\ [][NextFb]_vars

\* The system calls operation n made.
SysOf(n) == { k \in 1..Len(fb_sys) : fb_sys[k].op = n }
Unmaps(n) == { k \in SysOf(n) : fb_sys[k].call = "munmap" }

\* The step is a call of MSMFB_DestroyWindowFramebuffer.
DestroyStep ==
    /\ Len(fb_ops') = Len(fb_ops) + 1
    /\ fb_ops'[Len(fb_ops')] = "DestroyWindowFramebuffer"

DestroyReleases ==
    DestroyStep =>
        /\ fb'.fb_mem = NULL
        /\ fb.fb_mem # NULL =>
             /\ fb_sys' = Append(fb_sys, fb_sys'[Len(fb_sys')])
             /\ fb_sys'[Len(fb_sys')].call = "munmap"
             /\ fb_sys'[Len(fb_sys')].a = fb.fb_mem
             /\ fb.fb_mem \notin mappings'
        /\ (fb_ops # <<>> /\ fb_ops[Len(fb_ops)] = "DestroyWindowFramebuffer") =>
             /\ fb_sys' = fb_sys
             /\ <<fb, dev_var, open_fds, mappings>>'
                  = <<fb, dev_var, open_fds, mappings>>

NoDoubleUnmap ==
    \A n \in 1..Len(fb_ops) :
        (n > 1 /\ fb_ops[n] = "DestroyWindowFramebuffer"
               /\ fb_ops[n - 1] = "DestroyWindowFramebuffer")
            => /\ SysOf(n) = {}
               /\ Cardinality(Unmaps(n - 1)) <= 1

(***************************************************************************)
(* C7: MSMFB_DestroyWindowFramebuffer twice in succession: the first call  *)
(* unmaps the recorded region (once) and clears fb_mem, the second makes   *)
(* no system call and leaves the driver and the kernel as they are.        *)
(***************************************************************************)
C7_DestroyTwice == [](NoDoubleUnmap) /\ [][DestroyReleases]_vars

\* Two releases in succession after a successful mapping: one munmap, of a
\* live mapping, by the first.
C7_Witness ==
    \E n \in 2..Len(fb_ops) :
        /\ fb_ops[n] = "DestroyWindowFramebuffer"
        /\ fb_ops[n - 1] = "DestroyWindowFramebuffer"
        /\ \E k \in Unmaps(n - 1) : fb_sys[k].ok
        /\ SysOf(n) = {}
        /\ fb.fb_mem = NULL /\ mappings = {}

\* The calls that write the saved original mode back to the device.
Restores ==
    { k \in 1..Len(fb_sys) :
        /\ fb_sys[k].call = "ioctl"
        /\ fb_sys[k].req = "FBIOPUT_VSCREENINFO"
        /\ fb_ops[fb_sys[k].op] = "VideoQuit" }

\* What FBIOGET_VSCREENINFO returned to MSMFB_VideoInit.
Queried == fb_sys[CHOOSE k \in SysOf(1) : fb_sys[k].req = "FBIOGET_VSCREENINFO"].val

(***************************************************************************)
(* C10: after a successful MSMFB_VideoInit the original mode info is       *)
(* written back exactly once, at shutdown, with the value queried at init: *)
(* fb_var_orig keeps that value through every operation, and the restore   *)
(* ioctl is not issued a second time, also when MSMFB_VideoQuit is called  *)
(* again after the handle was closed.                                      *)
(***************************************************************************)
C10_RestoreOnce ==
    fb_inited =>
        /\ fb.fb_var_orig = Queried
        /\ \A k \in Restores : fb_sys[k].val = Queried
        /\ Cardinality(Restores) <= 1
        /\ (\E n \in 1..Len(fb_ops) : fb_ops[n] = "VideoQuit")
               => Cardinality(Restores) = 1

\* The step is a call of an operation of the driver.
FbStep(name) ==
    /\ Len(fb_ops') = Len(fb_ops) + 1
    /\ fb_ops'[Len(fb_ops')] = name

UpdateCommitsOnce ==
    FbStep("UpdateWindowFramebuffer") =>
        /\ Len(fb_sys') = Len(fb_sys) + 1
        /\ SubSeq(fb_sys', 1, Len(fb_sys)) = fb_sys
        /\ LET c == fb_sys'[Len(fb_sys')]
           IN  /\ c.call = "ioctl" /\ c.req = "MSMFB_DISPLAY_COMMIT"
               /\ c.a = fb.fb_fd
        /\ fb_call'.ret = "0"
        /\ <<fb, fb_inited, dev_var, open_fds, mappings>>'
             = <<fb, fb_inited, dev_var, open_fds, mappings>>

(***************************************************************************)
(* C11: every call of MSMFB_UpdateWindowFramebuffer makes exactly one      *)
(* display-commit ioctl, whatever the rectangles (none, some clipped       *)
(* away); whether the commit succeeds or fails the call returns 0 and      *)
(* leaves the driver data as it was.                                       *)
(***************************************************************************)
C11_UpdateCommitsOnce == [][UpdateCommitsOnce]_vars

\* Two rectangles, both clipped away, and a commit that failed on an open
\* device.
C11_Witness ==
    /\ fb_ops # <<>> /\ fb_ops[Len(fb_ops)] = "UpdateWindowFramebuffer"
    /\ Len(fb_call.rects) = 2 /\ fb_call.copied = <<>>
    /\ fb.fb_fd \in open_fds
    /\ ~fb_sys[Len(fb_sys)].ok
    /\ fb_call.ret = "0"

(***************************************************************************)
(* C14: fb_mem is NULL or the address of a live mapping (returned by a     *)
(* successful mmap and not yet unmapped), so every munmap that             *)
(* MSMFB_DestroyWindowFramebuffer makes is of a live mapping, also after   *)
(* MSMFB_CreateWindowFramebuffer failed to map.                            *)
(***************************************************************************)
C14_MemIsLive ==
    /\ fb.fb_mem # NULL => fb.fb_mem \in mappings
    /\ \A k \in 1..Len(fb_sys) : fb_sys[k].call = "munmap" => fb_sys[k].ok

\* The calls that close descriptor fd.
Closes(fd) == { k \in 1..Len(fb_sys) : fb_sys[k].call = "close" /\ fb_sys[k].a = fd }

QuitCalled == \E n \in 1..Len(fb_ops) : fb_ops[n] = "VideoQuit"

\* Every descriptor MSMFB_VideoInit opened is closed once when
\* MSMFB_VideoQuit was called, and not before.
ClosedOnce ==
    \A k \in 1..Len(fb_sys) :
        (fb_sys[k].call = "open" /\ fb_sys[k].ok) =>
            /\ Cardinality(Closes(fb_sys[k].a)) = IF QuitCalled THEN 1 ELSE 0
            /\ \A c \in Closes(fb_sys[k].a) : fb_sys[c].ok
            /\ QuitCalled => fb_sys[k].a \notin open_fds

QuitCompletes ==
    FbStep("VideoQuit") =>
        /\ fb'.fb_fd = 0
        /\ fb_call'.ret = "void"
        /\ Len(fb_sys') > Len(fb_sys)
        /\ fb_sys'[Len(fb_sys) + 1].req = "FBIOPUT_VSCREENINFO"
        /\ fb.fb_fd \in open_fds =>
             /\ Len(fb_sys') = Len(fb_sys) + 2
             /\ fb_sys'[Len(fb_sys')].call = "close"
             /\ fb_sys'[Len(fb_sys')].a = fb.fb_fd
             /\ fb.fb_fd \notin open_fds'

(***************************************************************************)
(* C18: MSMFB_VideoQuit completes whether the mode restore succeeds or     *)
(* fails: the descriptor MSMFB_VideoInit opened is closed, exactly once    *)
(* over all calls of MSMFB_VideoQuit, fb_fd is reset to 0 and nothing is   *)
(* returned to the caller.  (open is taken to return a descriptor other    *)
(* than 0.)                                                                *)
(***************************************************************************)
C18_QuitCompletes == [](ClosedOnce) /\ [][QuitCompletes]_vars

\* The restore failed on the open device, the descriptor was closed; a
\* second call closed nothing.
C18_Witness ==
    \E n \in 2..Len(fb_ops) :
        /\ fb_ops[n] = "VideoQuit" /\ fb_ops[n - 1] = "VideoQuit"
        /\ \E k \in SysOf(n - 1) :
             fb_sys[k].req = "FBIOPUT_VSCREENINFO" /\ ~fb_sys[k].ok
                 /\ fb_sys[k].a = DeviceFd
        /\ Cardinality(Closes(DeviceFd)) = 1
        /\ fb.fb_fd = 0 /\ open_fds = {}

(***************************************************************************)
(* Events of every type the switch knows, each with a payload that has an  *)
(* effect when it reaches the switch for window entry 1.                   *)
(***************************************************************************)
ClientMessage(w, message_type, format, data0) ==
    [XEvent("ClientMessage", w) EXCEPT
        !.message_type = message_type, !.format = format, !.data0 = data0]

SelectionRequest(w, target, status, type) ==
    [XEvent("SelectionRequest", w) EXCEPT
        !.selection = "PRIMARY", !.target = target, !.property = "DEST",
        !.requestor = 77, !.time = 0,
        !.store_status = status, !.store_type = type]

EveryType(w) ==
    { XEvent(t, w) : t \in {"EnterNotify", "LeaveNotify", "FocusIn", "FocusOut",
                            "KeymapNotify", "MappingNotify", "UnmapNotify",
                            "MapNotify", "Expose", "SelectionNotify"} }
    \cup { [XEvent("KeyPress", w) EXCEPT !.keycode = 38, !.text = "a"],
           [XEvent("KeyRelease", w) EXCEPT !.keycode = 38],
           [XEvent("ConfigureNotify", w) EXCEPT !.x = 1, !.width = 2],
           [XEvent("MotionNotify", w) EXCEPT !.x = 3, !.y = 4],
           [XEvent("ButtonPress", w) EXCEPT !.button = Button4],
           [XEvent("ButtonRelease", w) EXCEPT !.button = Button4],
           [XEvent("PropertyNotify", w) EXCEPT
               !.atom = "_NET_WM_STATE", !.netwm_hidden = TRUE],
           ClientMessage(w, "WM_PROTOCOLS", 32, "_NET_WM_PING"),
           ClientMessage(w, "WM_PROTOCOLS", 32, "WM_DELETE_WINDOW"),
           SelectionRequest(w, "STRING", "Success", "STRING") }

\* What the switch does to window entry 1 before a dropped event comes.
Resolved ==
    { XEvent("FocusOut", XWindowOf(1)), XEvent("EnterNotify", XWindowOf(1)),
      [XEvent("ConfigureNotify", XWindowOf(1)) EXCEPT !.x = 1, !.width = 2] }

\* Every type on a window that is no entry of the window list.
ForeignEvents == EveryType(ForeignWindow) \cup Resolved

\* Every type on window entry 1, taken by the input method.
FilteredEvents ==
    { [e EXCEPT !.im_filtered = TRUE] : e \in EveryType(XWindowOf(1)) }
    \cup Resolved

\* these event families are large: fewer events arrive in one behaviour
MaxDropEvents == 2

\* The application asks for the clipboard: a selection request is in
\* flight until the SelectionNotify comes.
RequestSelection ==
    /\ pc = "idle"
    /\ ~selection_waiting
    /\ selection_waiting' = TRUE
    /\ UNCHANGED <<pc, stream, head, now, windowlist, pending_src,
                   keyboard_focus, mouse_focus, sent, calls>>
    /\ UNCHANGED <<hidden, relative_mode, syswm, wmmsgs, xsent, ticks>>
    /\ UNCHANGED <<touchvars, fbvars>>

\* The state after construction in an application that has or has not
\* enabled system-message events.
InitApp ==
    /\ InitTouch
    /\ InitPoll({TRUE})
    /\ InitFb({FbVar(0, 0, "FB_ACTIVATE_VBL")})
    /\ pc = "idle"
    /\ stream = <<>>
    /\ head = 0
    /\ now = 0
    /\ windowlist = [i \in WindowIds |-> InitWindowData]
    /\ pending_src = [i \in WindowIds |-> 0]
    /\ keyboard_focus = NULL
    /\ mouse_focus = NULL
    /\ sent = <<>>
    /\ calls = <<>>
    /\ InitMore(BOOLEAN)

NextForeign == Arrive(ForeignEvents, MaxDropEvents) \/ RequestSelection \/ Pump

SpecForeign == InitApp /\ [][NextForeign]_vars

NextFiltered == Arrive(FilteredEvents, MaxDropEvents) \/ RequestSelection \/ Pump

SpecFiltered == InitApp /\ [][NextFiltered]_vars

\* No entry of the window list has the handle.
Unresolved(xwindow) == \A i \in WindowIds : XWindowOf(i) # xwindow

\* The step is a call of X11_DispatchEvent; it pulls event head + 1.
DispatchStep == head' # head

\* What the switch can write: the canonical events, the requests on the
\* native connection, the window data, the focus, the selection flag.
SwitchState ==
    <<sent, xsent, windowlist, hidden, selection_waiting, keyboard_focus,
      mouse_focus, relative_mode>>

UnresolvedDropped ==
    (DispatchStep /\ Unresolved(stream[head + 1].window)) =>
        /\ SwitchState' = SwitchState
        /\ head' = head + 1

FilteredDropped ==
    (DispatchStep /\ stream[head + 1].im_filtered) =>
        /\ SwitchState' = SwitchState
        /\ wmmsgs' = wmmsgs
        /\ <<touchvars, fbvars>>' = <<touchvars, fbvars>>
        /\ head' = head + 1

(***************************************************************************)
(* C13: an event the input-method filter takes is dropped at once,         *)
(* whatever its type: no canonical event and no system message is sent,    *)
(* no request is made on the native connection, and the window data, the   *)
(* focus, the selection flag and the drivers stay as they are.             *)
(***************************************************************************)
C13_FilteredDropped == [][FilteredDropped]_vars

\* A filtered FocusOut after one that was recorded, with system messages
\* enabled: only the recorded one was forwarded.
C13_Witness ==
    /\ Len(calls) = 2 /\ syswm
    /\ stream[1] = XEvent("FocusOut", XWindowOf(1))
    /\ stream[2] = [XEvent("FocusIn", XWindowOf(1)) EXCEPT !.im_filtered = TRUE]
    /\ calls[2].filtered /\ calls[2].data = 1
    /\ windowlist[1].pending_focus = "PENDING_FOCUS_OUT"
    /\ Len(wmmsgs) = 1

(***************************************************************************)
(* Protocol traffic: client messages of the window manager (ping, delete   *)
(* window, others, well-formed or not) and selection requests with every   *)
(* outcome of the read of the cut buffer.                                  *)
(***************************************************************************)
ClientEvents ==
    { ClientMessage(XWindowOf(1), mt, f, d0) :
        mt \in {"WM_PROTOCOLS", "XdndEnter"}, f \in {32, 8},
        d0 \in {"_NET_WM_PING", "WM_DELETE_WINDOW", "WM_TAKE_FOCUS"} }
    \cup { ClientMessage(XWindowOf(2), "WM_PROTOCOLS", 32, "_NET_WM_PING"),
           ClientMessage(ForeignWindow, "WM_PROTOCOLS", 32, "_NET_WM_PING"),
           [ClientMessage(XWindowOf(1), "WM_PROTOCOLS", 32, "WM_DELETE_WINDOW")
               EXCEPT !.im_filtered = TRUE] }

SelectionEvents ==
    { SelectionRequest(XWindowOf(1), "STRING", "Success", "STRING"),
      SelectionRequest(XWindowOf(1), "STRING", "Success", "INTEGER"),
      SelectionRequest(XWindowOf(1), "STRING", "Success", "None"),
      SelectionRequest(XWindowOf(1), "STRING", "BadAlloc", "None"),
      SelectionRequest(XWindowOf(1), "UTF8_STRING", "Success", "STRING"),
      SelectionRequest(XWindowOf(2), "UTF8_STRING", "Success", "UTF8_STRING"),
      SelectionRequest(ForeignWindow, "STRING", "Success", "STRING"),
      [SelectionRequest(XWindowOf(1), "STRING", "Success", "STRING")
          EXCEPT !.im_filtered = TRUE],
      XEvent("SelectionNotify", XWindowOf(1)) }

NextProtocol ==
    \/ Arrive(ClientEvents \cup SelectionEvents, MaxDropEvents)
    \/ RequestSelection
    \/ Pump

SpecProtocol == InitApp /\ [][NextProtocol]_vars

\* The requests of a kind made on the native connection while native event
\* i was handled, and the canonical events sent for it.
XSentFor(call, i) ==
    { k \in 1..Len(xsent) : xsent[k].src = i /\ xsent[k].call = call }

CanonFor(i) == { k \in 1..Len(sent) : sent[k].src = i }

\* Native event i is a selection request that reached the switch.
Requested(i) == stream[i].type = "SelectionRequest" /\ Classified(i)

\* The read of the cut buffer succeeded and returned data of the requested
\* target type.
StoreReadable(req) ==
    req.store_status = "Success" /\ req.store_type = req.target

(***************************************************************************)
(* C15: every SelectionRequest that reaches the switch is answered, in     *)
(* the dispatch call that handles it, by exactly one SelectionNotify sent  *)
(* to the requestor, whether the cut buffer could be read or not; the      *)
(* property of the reply is the requested property exactly when the read   *)
(* succeeded and returned data of the requested target type, and None      *)
(* otherwise (and the data is copied to the requestor exactly then).       *)
(***************************************************************************)
C15_SelectionAnswered ==
    \A i \in 1..Len(stream) :
        Requested(i) =>
            /\ Cardinality(XSentFor("XSendEvent", i)) = 1
            /\ \A k \in XSentFor("XSendEvent", i) :
                 /\ xsent[k].dest = stream[i].requestor
                 /\ xsent[k].event.type = "SelectionNotify"
                 /\ xsent[k].event.requestor = stream[i].requestor
                 /\ xsent[k].event.selection = stream[i].selection
                 /\ xsent[k].event.time = stream[i].time
                 /\ xsent[k].event.property =
                      IF StoreReadable(stream[i]) THEN stream[i].property
                      ELSE "None"
            /\ Cardinality(XSentFor("XChangeProperty", i))
                 = IF StoreReadable(stream[i]) THEN 1 ELSE 0
            /\ CanonFor(i) = {}

\* A request that could be served and one whose read failed, both
\* answered.
C15_Witness ==
    /\ Len(stream) = 2 /\ Requested(1) /\ Requested(2)
    /\ StoreReadable(stream[1]) /\ stream[2].store_status = "BadAlloc"
    /\ Len(xsent) = 3
    /\ xsent[2].event.property = "DEST"
    /\ xsent[3].call = "XSendEvent" /\ xsent[3].event.property = "None"

\* Native event i is a ping of the window manager that reached the switch.
Pinged(i) ==
    /\ stream[i].type = "ClientMessage"
    /\ WM_Message(stream[i], "_NET_WM_PING")
    /\ Classified(i)

(***************************************************************************)
(* C16 (as stated): a ping is answered by exactly one message sent to the  *)
(* root window, equal to the received message in every field, and no       *)
(* canonical event.                                                        *)
(***************************************************************************)
C16_AsStated ==
    \A i \in 1..Len(stream) :
        Pinged(i) =>
            /\ Cardinality(XSentFor("XSendEvent", i)) = 1
            /\ \A k \in XSentFor("XSendEvent", i) :
                 xsent[k].dest = RootWindow /\ xsent[k].event = stream[i]
            /\ CanonFor(i) = {}

(***************************************************************************)
(* C16 (amended): a ping is answered by exactly one message sent to the    *)
(* root window, equal to the received message in every field but the       *)
(* window, which is set to the root window; no other request is made and   *)
(* no canonical event is sent.                                             *)
(***************************************************************************)
C16_PingEchoed ==
    \A i \in 1..Len(stream) :
        Pinged(i) =>
            /\ Cardinality(XSentFor("XSendEvent", i)) = 1
            /\ \A k \in 1..Len(xsent) : xsent[k].src = i =>
                 /\ xsent[k].call = "XSendEvent"
                 /\ xsent[k].dest = RootWindow
                 /\ xsent[k].event = [stream[i] EXCEPT !.window = RootWindow]
            /\ CanonFor(i) = {}

\* Pings for both window entries were answered.
C16_Witness ==
    /\ Len(stream) = 2 /\ Pinged(1) /\ Pinged(2)
    /\ stream[1].window = XWindowOf(2) /\ stream[2].window = XWindowOf(1)
    /\ Len(xsent) = 2
    /\ xsent[2].event.window = RootWindow
    /\ xsent[2].event.data0 = "_NET_WM_PING"

(***************************************************************************)
(* C17: a ClientMessage that reaches the switch sends exactly one close    *)
(* request for its window when it is a delete-window message               *)
(* (WM_PROTOCOLS, format 32, first data word WM_DELETE_WINDOW), and no     *)
(* canonical event at all when it is anything else, a ping included.       *)
(***************************************************************************)
C17_CloseRequest ==
    \A i \in 1..Len(stream) :
        (stream[i].type = "ClientMessage" /\ Classified(i)) =>
            IF WM_Message(stream[i], "WM_DELETE_WINDOW")
            THEN /\ Cardinality(CanonFor(i)) = 1
                 /\ \A k \in CanonFor(i) :
                      /\ sent[k].kind = "Close"
                      /\ XWindowOf(sent[k].window) = stream[i].window
            ELSE CanonFor(i) = {}

\* A delete-window message of the wrong format, then a good one.
C17_Witness ==
    /\ Len(stream) = 2 /\ Classified(1) /\ Classified(2)
    /\ stream[1] = ClientMessage(XWindowOf(1), "WM_PROTOCOLS", 8, "WM_DELETE_WINDOW")
    /\ stream[2] = ClientMessage(XWindowOf(1), "WM_PROTOCOLS", 32, "WM_DELETE_WINDOW")
    /\ sent = << Canon("Close", 2, 1, 0, 0) >>

(***************************************************************************)
(* The pump as a loop: wheel ticks and key repeats, events that are        *)
(* dropped, with the loop and the focus pass scheduled fairly (a pump     *)
(* call that was entered keeps running).                                   *)
(***************************************************************************)
PumpEvents ==
    { Press(Button4, 1), Release(Button4, 1),
      Key("KeyRelease", 38, 1), Key("KeyPress", 38, 1),
      [Key("KeyRelease", 38, 1) EXCEPT !.im_filtered = TRUE],
      [Press(Button4, 1) EXCEPT !.window = ForeignWindow] }

NextPump == Arrive(PumpEvents, MaxEvents) \/ Pump

SpecPump ==
    /\ InitX11 /\ [][NextPump]_vars
    /\ WF_vars(X11_DispatchEvent)
    /\ WF_vars(X11_HandleFocusChanges)

\* Every XNextEvent and XPeekEvent was called with an event in the queue.
ReadsGated ==
    \A k \in 1..Len(calls) :
        /\ calls[k].queued > 0
        /\ calls[k].peeked => calls[k].pending > 0
        /\ calls[k].drained => calls[k].pending > 0

\* An iteration of the loop takes one or two events from the queue; the
\* loop ends only when the queue is empty.
LoopStep ==
    /\ Len(calls') > Len(calls) =>
         /\ head' \in {head + 1, head + 2}
         /\ head' <= Len(stream)
         /\ stream' = stream
    /\ (pc = "events" /\ pc' = "idle") => XPending = 0

HeadClassified ==
    /\ ~stream[head + 1].im_filtered
    /\ ~Unresolved(stream[head + 1].window)

\* ... and is a press whose release, same button, same timestamp, is queued
\* right behind it.
HeadIsWheel ==
    /\ HeadClassified
    /\ head + 2 <= Len(stream)
    /\ WheelPair(head + 1)

TakesWhatItCommits ==
    DispatchStep =>
        /\ head' = IF HeadIsWheel THEN head + 2 ELSE head + 1
        /\ Len(calls') = Len(calls) + 1
        /\ calls'[Len(calls')].serial = head + 1

\* No event is pulled by two calls; a drained release is pulled by none and
\* sends nothing; a suppressed release leaves its press to the next call,
\* which sends the key-down when the press reaches the switch.
NoDoubleProcessing ==
    /\ \A i \in 1..Len(stream) : Cardinality(CallsOf(i)) <= 1
    /\ \A k \in 1..Len(calls) :
         calls[k].drained =>
             /\ CallsOf(calls[k].serial + 1) = {}
             /\ CanonFor(calls[k].serial + 1) = {}
    /\ \A i \in 1..Len(stream) :
         (RepeatPair(i) /\ ClassifiedWithPeek(i)) =>
             /\ SentFor("KeyUp", i) = 0
             /\ \A k \in CallsOf(i) :
                  /\ ~calls[k].drained
                  /\ k < Len(calls) =>
                       /\ calls[k + 1].serial = i + 1
                       /\ Classified(i + 1) =>
                            /\ SentFor("KeyDown", i + 1) = 1
                            /\ SentFor("KeyUp", i + 1) = 0

(***************************************************************************)
(* C21: no native event is processed twice and a lookahead takes what it   *)
(* commits to: a call of X11_DispatchEvent takes one event from the        *)
(* queue, or two when it commits to a wheel event (the press and the       *)
(* release behind it, which no call dispatches and which sends nothing);   *)
(* a suppressed key release is taken alone, and the press behind it is     *)
(* pulled by the next call and sent, once, as key-down.                    *)
(***************************************************************************)
C21_NoDoubleProcessing == [](NoDoubleProcessing) /\ [][TakesWhatItCommits]_vars

\* A suppressed release, its press sent as key-down by the next call, and
\* a third event still queued.
C21_Witness ==
    /\ Len(stream) = 3 /\ head = 2 /\ Len(calls) = 2
    /\ RepeatPair(1) /\ ClassifiedWithPeek(1)
    /\ calls[2].serial = 2
    /\ SentFor("KeyDown", 2) = 1 /\ SentFor("KeyUp", 1) = 0
    /\ stream[3].type = "ButtonPress"

\* The step is the pass of X11_HandleFocusChanges that ends a pump call.
DebouncerPass == pc = "events" /\ pc' = "idle"

\* Window entry d has a pending focus change whose deadline has come.
Due(d) ==
    /\ windowlist[d].pending_focus # "PENDING_FOCUS_NONE"
    /\ windowlist[d].pending_focus_time <= now

\* The focus action of window entry d, if it is due.
DueAction(d) ==
    IF Due(d)
    THEN << Canon(IF windowlist[d].pending_focus = "PENDING_FOCUS_IN"
                  THEN "FocusIn" ELSE "FocusOut", pending_src[d], d, 0, 0) >>
    ELSE <<>>

DueActions == DueAction(1) \o DueAction(2)

FocusDispatched ==
    DebouncerPass =>
        /\ NewlySent = DueActions
        /\ \A d \in WindowIds :
             windowlist'[d] =
                 IF Due(d)
                 THEN [windowlist[d] EXCEPT !.pending_focus = "PENDING_FOCUS_NONE"]
                 ELSE windowlist[d]
        /\ keyboard_focus' =
             IF DueActions = <<>> THEN keyboard_focus
             ELSE LET last == DueActions[Len(DueActions)]
                  IN  IF last.kind = "FocusIn" THEN last.window ELSE NULL

\* The focus actions dispatched for the transition native event i recorded.
FocusActionsFor(i) == SentFor("FocusIn", i) + SentFor("FocusOut", i)

DispatchedOnce ==
    \A i \in 1..Len(stream) :
        /\ FocusActionsFor(i) <= 1
        /\ SentFor("FocusIn", i) = 1 => stream[i].type = "FocusIn"
        /\ SentFor("FocusOut", i) = 1 => stream[i].type = "FocusOut"

(***************************************************************************)
(* C22: a pass of X11_HandleFocusChanges dispatches a focus action for a   *)
(* window exactly when its pending focus is not None and its deadline has  *)
(* come: the action of the pending kind (focus-in makes the window the     *)
(* keyboard focus, focus-out clears the keyboard focus), after which the   *)
(* pending focus is None, so a recorded transition is dispatched at most   *)
(* once; a pending focus whose deadline has not come is left as it is and  *)
(* nothing is dispatched for it.                                           *)
(***************************************************************************)
C22_FocusDispatched == [](DispatchedOnce) /\ [][FocusDispatched]_vars

\* The focus-in of entry 1 was dispatched in a pass that left the pending
\* focus-out of entry 2, not yet due, alone.
C22_Witness ==
    /\ pc = "idle" /\ keyboard_focus = 1
    /\ windowlist[1].pending_focus = "PENDING_FOCUS_NONE"
    /\ pending_src[1] # 0 /\ SentFor("FocusIn", pending_src[1]) = 1
    /\ windowlist[2].pending_focus = "PENDING_FOCUS_OUT"
    /\ windowlist[2].pending_focus_time > now
    /\ sent[Len(sent)].kind = "FocusIn"

(***************************************************************************)
(* Focus changes of a window that has the keyboard focus: it gains the     *)
(* focus, loses it and gains it again, while another window gains it too.  *)
(***************************************************************************)
RefocusEvents ==
    { Focus("FocusIn", 1, "NotifyAncestor"), Focus("FocusOut", 1, "NotifyAncestor"),
      Focus("FocusIn", 1, "NotifyInferior"), Focus("FocusIn", 2, "NotifyAncestor") }

NextRefocus == Arrive(RefocusEvents, MaxEvents) \/ Tick \/ Pump

SpecRefocus == InitX11 /\ [][NextRefocus]_vars

KeyboardReset ==
    \A d \in WindowIds :
        (FocusDispatch(d) /\ stream[head + 1].type = "FocusIn") =>
            NewlySent =
                IF /\ stream[head + 1].detail # "NotifyInferior"
                   /\ windowlist[d].pending_focus = "PENDING_FOCUS_OUT"
                   /\ keyboard_focus = d
                THEN << Canon("ResetKeyboard", head + 1, d, 0, 0) >>
                ELSE <<>>

(***************************************************************************)
(* C23: a FocusIn that is not NotifyInferior resets the keyboard exactly   *)
(* when, as it is handled, the pending focus of its window is Out and the  *)
(* window is the keyboard focus; handled in any other state (pending None  *)
(* or In, or another or no window has the keyboard focus), and when it is  *)
(* NotifyInferior, it resets nothing.                                      *)
(***************************************************************************)
C23_KeyboardReset == [][KeyboardReset]_vars

\* Entry 1 had the keyboard focus and a pending focus-out when its
\* FocusIn came: one reset.
C23_Witness ==
    /\ Len(stream) = 3 /\ head = 3 /\ keyboard_focus = 1
    /\ stream[2] = Focus("FocusOut", 1, "NotifyAncestor")
    /\ stream[3] = Focus("FocusIn", 1, "NotifyAncestor")
    /\ SentFor("ResetKeyboard", 3) = 1
    /\ SentFor("FocusOut", 2) = 0
    /\ windowlist[1].pending_focus = "PENDING_FOCUS_IN"

(***************************************************************************)
(* The pointer crosses the borders of the two windows, in every mode and   *)
(* with a detail that is or is not NotifyInferior.                         *)
(***************************************************************************)
Crossing(type, w, mode, detail) ==
    [XEvent(type, XWindowOf(w)) EXCEPT !.mode = mode, !.detail = detail]

CrossingModes == {"NotifyNormal", "NotifyGrab", "NotifyUngrab"}

CrossingEvents ==
    { Crossing("EnterNotify", w, "NotifyNormal", "NotifyAncestor") : w \in WindowIds }
    \cup { Crossing("EnterNotify", 1, "NotifyGrab", "NotifyInferior") }
    \cup { Crossing("LeaveNotify", 1, mode, "NotifyAncestor") : mode \in CrossingModes }
    \cup { Crossing("LeaveNotify", 1, "NotifyNormal", "NotifyInferior"),
           Crossing("LeaveNotify", 2, "NotifyNormal", "NotifyNonlinear") }

NextCrossing == Arrive(CrossingEvents, MaxEvents) \/ Pump

SpecCrossing == InitX11 /\ [][NextCrossing]_vars

\* The grab/ungrab artifacts and the moves into a descendant window.
Suppressed(xevent) ==
    \/ xevent.mode \in {"NotifyGrab", "NotifyUngrab"}
    \/ xevent.detail = "NotifyInferior"

MouseFocusFollows ==
    (DispatchStep /\ HeadClassified) =>
        LET xevent == stream[head + 1] IN
        /\ xevent.type = "EnterNotify" =>
               mouse_focus' = LookupWindow(xevent.window)
        /\ xevent.type = "LeaveNotify" =>
               mouse_focus' = IF Suppressed(xevent) THEN mouse_focus ELSE NULL

(***************************************************************************)
(* C24: every EnterNotify of a window of the window list makes that window *)
(* the mouse focus; a LeaveNotify clears the mouse focus when its mode is  *)
(* neither NotifyGrab nor NotifyUngrab and its detail is not               *)
(* NotifyInferior, and leaves the mouse focus as it was otherwise.         *)
(***************************************************************************)
C24_MouseFocusFollows == [][MouseFocusFollows]_vars

\* The pointer entered window 1, a grab reported a leave, which was
\* suppressed, then the pointer left for good.
C24_Witness ==
    /\ Len(stream) = 3 /\ head = 3
    /\ stream[1] = Crossing("EnterNotify", 1, "NotifyNormal", "NotifyAncestor")
    /\ stream[2] = Crossing("LeaveNotify", 1, "NotifyGrab", "NotifyAncestor")
    /\ stream[3] = Crossing("LeaveNotify", 1, "NotifyNormal", "NotifyAncestor")
    /\ Len(calls) = 3
    /\ mouse_focus = NULL

(***************************************************************************)
(* The window manager changes properties of the windows, the state         *)
(* property among them, and maps and unmaps window 1.                      *)
(***************************************************************************)
Property(w, atom, h) ==
    [XEvent("PropertyNotify", XWindowOf(w)) EXCEPT !.atom = atom, !.netwm_hidden = h]

PropertyEvents ==
    { Property(1, atom, h) : atom \in {"_NET_WM_STATE", "WM_NAME"}, h \in BOOLEAN }
    \cup { Property(2, "_NET_WM_STATE", TRUE),
           XEvent("MapNotify", XWindowOf(1)), XEvent("UnmapNotify", XWindowOf(1)) }

NextProperty == Arrive(PropertyEvents, MaxEvents) \/ Pump

SpecProperty == InitX11 /\ [][NextProperty]_vars

HiddenMinimized(i, d) ==
    << Canon("Hidden", i, d, 0, 0), Canon("Minimized", i, d, 0, 0) >>

ShownRestored(i, d) ==
    << Canon("Shown", i, d, 0, 0), Canon("Restored", i, d, 0, 0) >>

VisibilityFollowsState ==
    (DispatchStep /\ HeadClassified) =>
        LET xevent == stream[head + 1]
            d == LookupWindow(xevent.window)
        IN  /\ xevent.type = "PropertyNotify" =>
                 NewlySent =
                     IF /\ xevent.atom = "_NET_WM_STATE"
                        /\ xevent.netwm_hidden # hidden[d]
                     THEN IF xevent.netwm_hidden
                          THEN HiddenMinimized(head + 1, d)
                          ELSE ShownRestored(head + 1, d)
                     ELSE <<>>
            /\ xevent.type = "UnmapNotify" => NewlySent = HiddenMinimized(head + 1, d)
            /\ xevent.type = "MapNotify" => NewlySent = ShownRestored(head + 1, d)

(***************************************************************************)
(* C25: a PropertyNotify sends window events only when the property is the *)
(* window-manager state property and the hidden flag read from it differs  *)
(* from the hidden flag of the window: hidden then minimized when the new  *)
(* state is hidden, shown then restored when it is not, the events of      *)
(* UnmapNotify and of MapNotify in their order; for another property, or   *)
(* with the same hidden flag, it sends nothing.                            *)
(***************************************************************************)
C25_VisibilityFollowsState == [][VisibilityFollowsState]_vars

\* The state property hid window 1, said so again (nothing sent), then
\* showed it.
C25_Witness ==
    /\ Len(stream) = 3 /\ head = 3
    /\ stream[1] = Property(1, "_NET_WM_STATE", TRUE)
    /\ stream[2] = Property(1, "_NET_WM_STATE", TRUE)
    /\ stream[3] = Property(1, "_NET_WM_STATE", FALSE)
    /\ sent = HiddenMinimized(1, 1) \o ShownRestored(3, 1)
    /\ ~hidden[1]

(***************************************************************************)
(* The tail of X11_PumpEvents (lines 713-790): the loop over the raw touch *)
(* devices.  The loop of line 720 and the loop of line 733 inside it count *)
(* with the same int i.                                                    *)
(***************************************************************************)
\* SDL_GetNumTouch()
NumTouch == Cardinality(TouchIds)

\* SDL_GetTouchIndex(i): the device of index i, indices from 0.
SDL_GetTouchIndex(i) == i + 1

\* one read returns at most this many input_events (64 in the code)
MaxRead == 2

\* What a device delivers while it is polled.
PollEvents ==
    { InputEvent("EV_ABS", "ABS_X", 5), InputEvent("EV_SYN", "SYN_REPORT", 0) }

\* What one read (line 731) may return: rd / sizeof(struct input_event)
\* events, none when nothing was readable.
Reads == UNION { [1..n -> PollEvents] : n \in 0..MaxRead }

\* The loop of line 733 over the events of one read, from ev[k] on.
RECURSIVE TouchBatch(_, _, _, _)
TouchBatch(id, data, ev, k) ==
    IF k > Len(ev) THEN [data |-> data, out |-> <<>>]
    ELSE LET r == TouchInput(id, data, ev[k])
             rest == TouchBatch(id, r.data, ev, k + 1)
         IN  [data |-> rest.data, out |-> r.out \o rest.out]

\* i when the body of the loop of line 720 is done: the loop of line 733
\* has counted it up from 0 to the number of events read; it ran only if
\* rd >= size (line 732).
IndexAfterRead(i, ev) == IF Len(ev) >= 1 THEN Len(ev) ELSE i

\* One iteration of the loop of line 720: the device of index i is read
\* and its events are handled; then ++i and the loop test.
X11_PollTouch ==
    /\ pc = "touch"
    /\ poll_i < NumTouch
    /\ \E ev \in Reads :
         LET id == SDL_GetTouchIndex(poll_i)
             r == TouchBatch(id, touch[id], ev, 1)
             i == IndexAfterRead(poll_i, ev) + 1
         IN  /\ touch' = [touch EXCEPT ![id] = r.data]
             /\ touch_out' = r.out
             /\ touch_last' =
                  IF ev = <<>> THEN touch_last
                  ELSE [dev |-> id, type |-> ev[Len(ev)].type,
                        code |-> ev[Len(ev)].code, value |-> ev[Len(ev)].value]
             /\ polled' = Append(polled, id)
             /\ poll_i' = i
             /\ pc' = IF i < NumTouch THEN "touch" ELSE "idle"
    /\ UNCHANGED <<stream, head, now, windowlist, pending_src, keyboard_focus,
                   mouse_focus, sent, calls, x11more>>
    /\ UNCHANGED <<xinput2, fbvars>>

\* The whole pump call, on a display with or without XInput2 multitouch,
\* while focus changes arrive.
PollFocusEvents ==
    { Focus("FocusIn", 1, "NotifyAncestor"), Focus("FocusOut", 1, "NotifyAncestor") }

\* the touch devices multiply the states: fewer focus changes arrive
MaxPollEvents == 1

NextPoll ==
    \/ Arrive(PollFocusEvents, MaxPollEvents)
    \/ Tick
    \/ Pump
    \/ X11_PollTouch

SpecPoll == InitDisplay(BOOLEAN) /\ [][NextPoll]_vars

FocusActions(out) ==
    { k \in 1..Len(out) : out[k].kind \in {"FocusIn", "FocusOut"} }

PumpPhases ==
    \* a call starts with the dispatch loop
    /\ (pc = "idle" /\ pc' # "idle") => pc' = "events"
    \* the dispatch loop: no focus action, the keyboard focus stays
    /\ DispatchStep =>
          /\ pc = "events" /\ pc' = "events"
          /\ FocusActions(NewlySent) = {}
          /\ keyboard_focus' = keyboard_focus
    \* the debouncer runs when nothing is pending any more, once over the
    \* window list, and only then come the touch devices, if at all
    /\ (pc = "events" /\ pc' # "events") =>
          /\ XPending = 0
          /\ NewlySent = DueActions
          /\ \A d \in WindowIds :
               Cardinality({ k \in FocusActions(NewlySent) :
                               NewlySent[k].window = d }) <= 1
          /\ pc' = IF xinput2 THEN "idle" ELSE "touch"
          /\ polled' = <<>>
    \* outside the debouncer nothing dispatches a focus action
    /\ ~(pc = "events" /\ pc' # "events") =>
          /\ FocusActions(NewlySent) = {}
          /\ keyboard_focus' = keyboard_focus
    \* the touch devices are read last, on a display without multitouch
    /\ polled' # polled /\ polled' # <<>> => pc = "touch" /\ ~xinput2
    /\ pc = "touch" =>
          /\ pc' \in {"touch", "idle"}
          /\ head' = head /\ sent' = sent /\ windowlist' = windowlist

C29_EachDeviceReadOnce ==
    (pc = "idle" /\ ~xinput2 /\ poll_i >= NumTouch) =>
        polled = [k \in 1..NumTouch |-> SDL_GetTouchIndex(k - 1)]

(***************************************************************************)
(* The deadline test at the full width of the tick counter: a focus event  *)
(* records a deadline at any tick, also shortly before the counter wraps,  *)
(* time passes, X11_HandleFocusChanges tests the deadline.                 *)
(***************************************************************************)
\* the ticks at which a deadline is recorded: 0, 1000, 2^31 - 50,
\* 2^32 - 150, 2^32 - 50, 2^32 - 1
StartTicks ==
    { Uint32(0), Uint32(1000), [hi |-> 32767, lo |-> 65486],
      [hi |-> 65535, lo |-> 65386], [hi |-> 65535, lo |-> 65486],
      [hi |-> 65535, lo |-> 65535] }

\* the claim is about intervals below 2^31 ticks
MaxElapsed == 2147483647

TickSteps == { 1, 99, 100, 2147483447 }

\* pump calls between the recording and the test
MaxSteps == 3

\* A focus case records the deadline (lines 269 and 286).
RecordDeadline ==
    /\ \E start \in StartTicks, delay \in {PENDING_FOCUS_IN_TIME, PENDING_FOCUS_OUT_TIME} :
         ticks' = [pending_focus_time |-> Uint32Add(start, delay), now |-> start,
                   delay |-> delay, elapsed |-> 0, steps |-> 0,
                   expired |-> "untested"]
    /\ UNCHANGED <<pc, stream, head, now, windowlist, pending_src, keyboard_focus,
                   mouse_focus, sent, calls>>
    /\ UNCHANGED <<selection_waiting, hidden, relative_mode, syswm, wmmsgs, xsent>>
    /\ UNCHANGED <<touchvars, fbvars>>

\* SDL_GetTicks() goes on, modulo 2^32.
TicksPass ==
    /\ ticks.delay # 0
    /\ ticks.steps < MaxSteps
    /\ \E step \in TickSteps :
         /\ step <= MaxElapsed - ticks.elapsed
         /\ ticks' = [ticks EXCEPT !.now = Uint32Add(ticks.now, step),
                                   !.elapsed = @ + step,
                                   !.steps = @ + 1,
                                   !.expired = "untested"]
    /\ UNCHANGED <<pc, stream, head, now, windowlist, pending_src, keyboard_focus,
                   mouse_focus, sent, calls>>
    /\ UNCHANGED <<selection_waiting, hidden, relative_mode, syswm, wmmsgs, xsent>>
    /\ UNCHANGED <<touchvars, fbvars>>

\* The test of line 635.
TestDeadline ==
    /\ ticks.delay # 0
    /\ ticks.expired = "untested"
    /\ ticks' = [ticks EXCEPT !.expired =
                    IF DeadlineExpired(ticks.pending_focus_time, ticks.now)
                    THEN "yes" ELSE "no"]
    /\ UNCHANGED <<pc, stream, head, now, windowlist, pending_src, keyboard_focus,
                   mouse_focus, sent, calls>>
    /\ UNCHANGED <<selection_waiting, hidden, relative_mode, syswm, wmmsgs, xsent>>
    /\ UNCHANGED <<touchvars, fbvars>>

NextDeadline == RecordDeadline \/ TicksPass \/ TestDeadline

SpecDeadline == InitX11 /\ [][NextDeadline]_vars

\* The counter wrapped around 2^32 since the deadline was recorded.
Wrapped ==
    \/ ticks.now.hi < Uint32Sub(ticks.pending_focus_time, Uint32(ticks.delay)).hi
    \/ /\ ticks.now.hi = Uint32Sub(ticks.pending_focus_time, Uint32(ticks.delay)).hi
       /\ ticks.now.lo < Uint32Sub(ticks.pending_focus_time, Uint32(ticks.delay)).lo

(***************************************************************************)
(* C27: the deadline test (int)(pending_focus_time - now) <= 0 on Uint32   *)
(* ticks says expired exactly when the ticks elapsed since the deadline    *)
(* was recorded have reached the delay, also when the counter wrapped      *)
(* around 2^32 in between, for elapsed intervals below 2^31 ticks; never   *)
(* before the deadline.                                                    *)
(***************************************************************************)
C27_DeadlineTest ==
    ticks.expired # "untested" =>
        (ticks.expired = "yes") = (ticks.elapsed >= ticks.delay)

\* The deadline was recorded 50 ticks before the wrap, for 50 ticks after
\* it, and tested 200 ticks later, after the wrap: expired.
C27_Witness ==
    /\ ticks.delay = PENDING_FOCUS_IN_TIME
    /\ ticks.pending_focus_time = Uint32(50)
    /\ Wrapped
    /\ ticks.now = Uint32(150)
    /\ ticks.elapsed = 200
    /\ ticks.expired = "yes"

(***************************************************************************)
(* Every event type on window 1, events of a foreign window and an event   *)
(* the input method takes, in an application that has or has not enabled   *)
(* system-message events.                                                  *)
(***************************************************************************)
SysWMEvents ==
    EveryType(XWindowOf(1))
    \cup { [XEvent("KeyPress", ForeignWindow) EXCEPT !.keycode = 38],
           XEvent("Expose", ForeignWindow),
           [XEvent("KeyPress", XWindowOf(1)) EXCEPT !.keycode = 38, !.im_filtered = TRUE] }

NextSysWM == Arrive(SysWMEvents, MaxDropEvents) \/ Pump

SpecSysWM == InitApp /\ [][NextSysWM]_vars

\* The system messages forwarded for native event i.
SysWMFor(i) == { k \in 1..Len(wmmsgs) : wmmsgs[k].src = i }

SysWMForwarded ==
    \A i \in 1..Len(stream) :
        /\ Cardinality(SysWMFor(i)) =
               IF syswm /\ CallsOf(i) # {} /\ ~stream[i].im_filtered THEN 1 ELSE 0
        /\ \A k \in SysWMFor(i) :
               /\ wmmsgs[k].event = stream[i]
               /\ \A j \in CanonFor(i) : j > wmmsgs[k].before

(***************************************************************************)
(* C28: with system-message events enabled, every native event that        *)
(* X11_DispatchEvent pulls and the input method does not take is forwarded *)
(* to the system-message sink once, unchanged, before any canonical event  *)
(* of its classification, whatever its type and also when its window is    *)
(* no entry of the window list; with system-message events not enabled     *)
(* nothing is forwarded; a release drained by the wheel lookahead is not   *)
(* forwarded.                                                              *)
(***************************************************************************)
C28_SysWMForwarded == SysWMForwarded

\* A wheel pair with system messages enabled: the press was forwarded
\* before the wheel event, the drained release was not.
C28_Witness ==
    /\ syswm
    /\ Len(stream) = 2 /\ head = 2 /\ Len(calls) = 1
    /\ stream[1].type = "ButtonPress" /\ stream[2].type = "ButtonRelease"
    /\ wmmsgs = << [src |-> 1, event |-> stream[1], before |-> 0] >>
    /\ Len(sent) = 1 /\ sent[1].kind = "MouseWheel"

(***************************************************************************)
(* C30: across MSMFB_CreateWindowFramebuffer, MSMFB_DestroyWindowFrame-    *)
(* buffer and MSMFB_VideoQuit at most one framebuffer mapping is live and  *)
(* none is leaked: a live mapping is the one recorded in fb_mem, also      *)
(* after two creates without a release between them and after a create     *)
(* that failed at the pan.                                                 *)
(***************************************************************************)
C30_OneMapping ==
    /\ Cardinality(mappings) <= 1
    /\ \A addr \in mappings : addr = fb.fb_mem

(***************************************************************************)
(* C31: every finger-down, touch-motion and finger-up event sent at a sync *)
(* marker carries a pressure of 0 or more, whatever the raw events before  *)
(* it, also at a sync that follows a finger-up with no pressure event in   *)
(* between.                                                                *)
(***************************************************************************)
C31_PressureNotNegative ==
    \A k \in 1..Len(touch_out) : touch_out[k].pressure >= 0

====
